---- MODULE Spec2Model ----
(***************************************************************************)
(* A model of the conversational relay of pochenphys/Project:              *)
(*   - the debounced image aggregators (record.add_image_to_buffer and     *)
(*     MessageFlowController.process_line_image),                          *)
(*   - the FIFO inventory ledger (deduct_food_quantity,                    *)
(*     delete_food_record_by_id, DatabaseManager.insert_food_record),      *)
(*   - the per-user session mode and the ordinal record index              *)
(*     (FunctionRouter).                                                   *)
(* Quantities are reals in the program; they are modelled as naturals      *)
(* (multiples of one quantum), so floating-point rounding is not modelled. *)
(***************************************************************************)
EXTENDS Integers, Sequences, FiniteSets, TLC

\* ------------------------------------------------------------------------
\* Bounds of the model
\* ------------------------------------------------------------------------
\* Number of image events delivered in one run of the aggregator.
MaxImages == 2
\* Largest imageSet.total a delivered image event declares.
MaxTotal == 2
\* Largest quantity of a food record and of an analysed item.
MaxQty == 2
\* Number of rows of the foods table a deduction is tried on.
MaxRows == 3
\* Number of rows record mode inserts in one run of the relay.
MaxRecords == 2
\* Number of calls other threads make on the connection during a deduction.
MaxOps == 2
\* Handler threads inside the same function at once.
MaxCallers == 2
\* Seconds a run of the wait notice covers.
MaxTime == 12
\* Characters of a consumption text.
MaxLen == 5

\* ------------------------------------------------------------------------
\* Program constants
\* ------------------------------------------------------------------------
\* record.BUFFER_WAIT_TIME, seconds.
BUFFER_WAIT_TIME == 10
\* MessageFlowController.buffer_wait_time, seconds.
buffer_wait_time == 2
\* webhook: seconds that must have passed since the last "please wait"
\* notice of the user before the next is sent.
WAIT_NOTICE_GAP == 10

Users == {"U1", "U2"}
\* imageSet.total of a delivered image event; 0 stands for "no imageSet"
\* (the platform attaches an imageSet only to images sent together).
Totals == {0} \cup 2..MaxTotal
\* The two aggregators of the program.
Aggregators == {"record", "recipe"}
\* user_timers holds no handle for the user.
NoTimer == 0
\* The quantity column is NULL / the Python value None.
NoQuantity == -1
FoodNames == {"apple", "pear"}
\* Amounts a consumption request may ask for.
Amounts == 0..(MaxQty + 2)
\* How the database orders rows of equal storage_time: ORDER BY
\* storage_time leaves it open; the two orders by id stand for it.
TieBreaks == {"id_asc", "id_desc"}

VARIABLES
    \* --- media aggregator (record.py 84-88, Line2Dify.py 1222-1229) ---
    agg,            \* which of the two aggregators this run is about
    image_buffer,   \* user -> sequence of buffered image events
    user_timers,    \* user -> index of the Timer stored for the user, or NoTimer
    timers,         \* every threading.Timer started so far: user, state, interval
    calls,          \* ingest calls that have arrived and wait for buffer_lock
    flushed,        \* batches handed to process_images / _process_buffered_images
    deadlines,      \* the instants "start + W" still ahead, in the order they come
    burst_ok,       \* user -> every call so far arrived less than W after the previous
    arrived,        \* number of image events delivered so far
    \* --- record store behind db_manager.connection ---
    foods,          \* the foods table as the shared connection sees it
    durable,        \* the foods table as committed
    ret,            \* the last ledger call: its arguments and what it returned
    \* --- router sessions ---
    user_function_state,            \* user -> mode ("none": no entry)
    user_delete_records_mapping,    \* user -> ordinal index of the Delete list
    has_batch,      \* user -> images handed to record mode and not yet analysed
    next_id,        \* AUTO_INCREMENT of foods.id
    \* --- threads on the shared connection ---
    txn,            \* where a deduction and a concurrent caller stand
    \* --- webhook handler threads (app.run serves each delivery on a thread) ---
    user_wait_message_sent,     \* user -> time of the last "please wait" notice
    handlers,       \* handler thread -> where it stands and its local variables
    now             \* time.time(), in seconds

aggVars == <<agg, image_buffer, user_timers, timers, calls, flushed, deadlines, burst_ok, arrived>>

dbVars == <<foods, durable>>

routerVars == <<user_function_state, user_delete_records_mapping, has_batch, next_id>>

webVars == <<user_wait_message_sent, handlers, now>>

vars == <<aggVars, dbVars, ret, routerVars, txn, webVars>>

\* ------------------------------------------------------------------------
\* Helpers
\* ------------------------------------------------------------------------
Range(s) == {s[i] : i \in DOMAIN s}

\* ------------------------------------------------------------------------
\* Media aggregator
\* ------------------------------------------------------------------------
\* The debounce window of the aggregator in use.
Window == IF agg = "record" THEN BUFFER_WAIT_TIME ELSE buffer_wait_time

\* Events of user u that are buffered.
Buffered(u) == Range(image_buffer[u])

\* Batches flushed for user u, as the set of their positions in flushed.
FlushesOf(u) == {i \in DOMAIN flushed : flushed[i].user = u}

\* Every event ingested so far (appended to a buffer under the lock).
Ingested == UNION {Range(image_buffer[u]) : u \in Users}
              \cup UNION {Range(flushed[i].events) : i \in DOMAIN flushed}

\* Every event of user u delivered so far.
EventsOf(u) == {e \in Ingested : e.user = u} \cup {c \in calls : c.user = u}

\* Some event of user u carried an imageSet.
Hinted(u) == \E e \in EventsOf(u) : e.total # 0

\* The Timer most recently started for user u, or NoTimer.
LastTimer(u) ==
    LET mine == {t \in DOMAIN timers : timers[t].user = u}
    IN IF mine = {} THEN NoTimer ELSE CHOOSE t \in mine : \A s \in mine : s <= t

\* threading.Timer.cancel(): sets the finished event; a timer whose function
\* was already called (or has returned) is not affected.
TimerCancel(ts, t) ==
    IF ts[t].state = "pending" THEN [ts EXCEPT ![t].state = "cancelled"] ELSE ts

\* Time.  Every Timer of one aggregator has the same interval W, and "less
\* than W after the previous call" is measured with the same W, so the
\* instants (timer start + W) and (arrival + W) come in the order of the
\* starts and arrivals themselves.  deadlines lists, first to come first,
\* the instants still ahead; Elapse lets time pass the first of them.
\* Only the instants something still depends on are kept: those of timers
\* that are not cancelled and of each user's last arrival.
TimerToken(t) == [kind |-> "timer", id |-> t]

ArrivalToken(id) == [kind |-> "arrival", id |-> id]

\* s without the elements for which drop holds.
Without(s, drop(_)) == SelectSeq(s, LAMBDA x : ~drop(x))

\* The interval of Timer t has not elapsed yet.
Running(t) == TimerToken(t) \in Range(deadlines)

\* The id of the last image event delivered for user u (0: none).
LastArrival(u) ==
    LET mine == {e.id : e \in EventsOf(u)}
    IN IF mine = {} THEN 0 ELSE CHOOSE i \in mine : \A j \in mine : j <= i

\* Less than W has passed since the last image event of user u arrived.
WithinWindow(u) == ArrivalToken(LastArrival(u)) \in Range(deadlines)

\* A timer flush happens before the timer started by the user's last ingest
\* has expired: a call of the user has arrived and still waits for the lock,
\* or the Timer started last for the user has seconds left.
Premature(u) ==
    \/ \E c \in calls : c.user = u
    \/ /\ LastTimer(u) # NoTimer
       /\ timers[LastTimer(u)].state = "pending"
       /\ Running(LastTimer(u))

\* webhook: an image event of user u is delivered and its handler thread
\* calls the ingest function; total = 0 stands for "no imageSet".
Arrive(u, total) ==
    /\ arrived < MaxImages
    /\ arrived' = arrived + 1
    /\ calls' = calls \cup {[id |-> arrived + 1, user |-> u, total |-> total]}
    /\ burst_ok' = [burst_ok EXCEPT ![u] = @ /\ (EventsOf(u) = {} \/ WithinWindow(u))]
    /\ deadlines' = Append(Without(deadlines, LAMBDA x : x = ArrivalToken(LastArrival(u))),
                            ArrivalToken(arrived + 1))
    /\ UNCHANGED <<webVars, agg, image_buffer, user_timers, timers, flushed, dbVars, ret, routerVars, txn>>

\* IngestBody with a slip: a call that finds a stored timer cancels it and
\* starts no new one.
IngestBody_NoRestart(c) ==
    LET u == c.user
        event == [id |-> c.id, user |-> u, total |-> c.total,
                  n |-> Cardinality(Ingested) + 1]
        buf == Append(image_buffer[u], event)
    IN  /\ calls' = calls \ {c}
        /\ image_buffer' = [image_buffer EXCEPT ![u] = buf]
        /\ IF user_timers[u] # NoTimer
           THEN /\ timers' = TimerCancel(timers, user_timers[u])
                /\ deadlines' = Without(deadlines, LAMBDA x : x = TimerToken(user_timers[u]))
                /\ UNCHANGED user_timers
           ELSE /\ timers' = Append(timers, [user |-> u, state |-> "pending",
                                             interval |-> Window])
                /\ user_timers' = [user_timers EXCEPT ![u] = Len(timers) + 1]
                /\ deadlines' = Append(deadlines, TimerToken(Len(timers) + 1))
        /\ UNCHANGED <<webVars, agg, flushed, burst_ok, arrived, dbVars, ret, routerVars, txn>>

\* IngestBody with a slip: the early flush hands the batch on and leaves the
\* buffer and the stored timer as they are.
IngestBody_EarlyKeeps(c) ==
    LET u == c.user
        event == [id |-> c.id, user |-> u, total |-> c.total,
                  n |-> Cardinality(Ingested) + 1]
        buf == Append(image_buffer[u], event)
    IN  /\ calls' = calls \ {c}
        /\ image_buffer' = [image_buffer EXCEPT ![u] = buf]
        /\ IF c.total # 0 /\ Len(buf) >= c.total
           THEN /\ flushed' = Append(flushed, [user |-> u, events |-> buf,
                                               by |-> "early", premature |-> FALSE])
                /\ UNCHANGED <<timers, user_timers, deadlines>>
           ELSE /\ timers' = Append(IF user_timers[u] # NoTimer
                                    THEN TimerCancel(timers, user_timers[u]) ELSE timers,
                                    [user |-> u, state |-> "pending", interval |-> Window])
                /\ user_timers' = [user_timers EXCEPT ![u] = Len(timers) + 1]
                /\ deadlines' = Append(Without(deadlines,
                                                LAMBDA x : x = TimerToken(user_timers[u])),
                                        TimerToken(Len(timers) + 1))
                /\ UNCHANGED flushed
        /\ UNCHANGED <<webVars, agg, burst_ok, arrived, dbVars, ret, routerVars, txn>>

\* The critical section of add_image_to_buffer / process_line_image for the
\* waiting call c: append, early flush on a complete imageSet, otherwise
\* cancel the stored timer and start a new one.
IngestBody(c) ==
    LET u == c.user
        event == [id |-> c.id, user |-> u, total |-> c.total,
                  n |-> Cardinality(Ingested) + 1]
        buf == Append(image_buffer[u], event)
        buffer_size == Len(buf)
    IN  /\ calls' = calls \ {c}
        /\ IF c.total # 0 /\ buffer_size >= c.total
           THEN /\ image_buffer' = [image_buffer EXCEPT ![u] = <<>>]
                /\ timers' = IF user_timers[u] # NoTimer
                             THEN TimerCancel(timers, user_timers[u]) ELSE timers
                /\ user_timers' = [user_timers EXCEPT ![u] = NoTimer]
                /\ flushed' = Append(flushed, [user |-> u, events |-> buf,
                                               by |-> "early", premature |-> FALSE])
                /\ deadlines' = Without(deadlines, LAMBDA x : x = TimerToken(user_timers[u]))
           ELSE /\ image_buffer' = [image_buffer EXCEPT ![u] = buf]
                /\ timers' = Append(IF user_timers[u] # NoTimer
                                    THEN TimerCancel(timers, user_timers[u]) ELSE timers,
                                    [user |-> u, state |-> "pending", interval |-> Window])
                /\ user_timers' = [user_timers EXCEPT ![u] = Len(timers) + 1]
                /\ deadlines' = Append(Without(deadlines,
                                                LAMBDA x : x = TimerToken(user_timers[u])),
                                        TimerToken(Len(timers) + 1))
                /\ UNCHANGED flushed
        /\ UNCHANGED <<webVars, agg, burst_ok, arrived, dbVars, ret, routerVars, txn>>

\* record.add_image_to_buffer
add_image_to_buffer(c) ==
    /\ agg = "record"
    /\ c \in calls
    /\ IngestBody(c)

\* MessageFlowController.process_line_image
process_line_image(c) ==
    /\ agg = "recipe"
    /\ c \in calls
    /\ IngestBody(c)

\* Time passes the next instant of deadlines.
Elapse ==
    /\ deadlines # <<>>
    /\ deadlines' = Tail(deadlines)
    /\ UNCHANGED <<webVars, agg, image_buffer, user_timers, timers, calls, flushed, burst_ok, arrived, dbVars, ret, routerVars, txn>>

\* threading.Timer.run: the interval has elapsed and finished is not set, so
\* the timer thread calls its function, which then waits for buffer_lock.
TimerFire(t) ==
    /\ t \in DOMAIN timers
    /\ timers[t].state = "pending"
    /\ ~Running(t)
    /\ timers' = [timers EXCEPT ![t].state = "fired"]
    /\ UNCHANGED <<webVars, agg, image_buffer, user_timers, calls, flushed, deadlines, burst_ok, arrived, dbVars, ret, routerVars, txn>>

\* TimeoutBody with a slip: the batch is copied and the buffer is not cleared.
TimeoutBody_NoClear(t) ==
    LET u == timers[t].user
    IN  /\ timers' = [timers EXCEPT ![t].state = "done"]
        /\ IF Len(image_buffer[u]) > 0
           THEN /\ flushed' = Append(flushed, [user |-> u, events |-> image_buffer[u],
                                               by |-> "timer", premature |-> Premature(u)])
                /\ user_timers' = [user_timers EXCEPT ![u] = NoTimer]
                /\ UNCHANGED image_buffer
           ELSE UNCHANGED <<image_buffer, user_timers, flushed>>
        /\ UNCHANGED <<webVars, agg, calls, deadlines, burst_ok, arrived, dbVars, ret, routerVars, txn>>

\* The critical section of process_buffered_images_timeout /
\* _process_buffered_images_timeout run by timer t.
TimeoutBody(t) ==
    LET u == timers[t].user
    IN  /\ timers' = [timers EXCEPT ![t].state = "done"]
        /\ IF Len(image_buffer[u]) > 0
           THEN /\ flushed' = Append(flushed, [user |-> u, events |-> image_buffer[u],
                                               by |-> "timer", premature |-> Premature(u)])
                /\ image_buffer' = [image_buffer EXCEPT ![u] = <<>>]
                /\ user_timers' = [user_timers EXCEPT ![u] = NoTimer]
           ELSE UNCHANGED <<image_buffer, user_timers, flushed>>
        /\ UNCHANGED <<webVars, agg, calls, deadlines, burst_ok, arrived, dbVars, ret, routerVars, txn>>

\* record.process_buffered_images_timeout
process_buffered_images_timeout(t) ==
    /\ agg = "record"
    /\ t \in DOMAIN timers
    /\ timers[t].state = "fired"
    /\ TimeoutBody(t)

\* MessageFlowController._process_buffered_images_timeout
_process_buffered_images_timeout(t) ==
    /\ agg = "recipe"
    /\ t \in DOMAIN timers
    /\ timers[t].state = "fired"
    /\ TimeoutBody(t)

\* ------------------------------------------------------------------------
\* Router sessions
\* ------------------------------------------------------------------------
\* user_delete_records_mapping has no entry for the user.
NoMapping == [present |-> FALSE, entries |-> <<>>]

\* No deduction under way and no other caller inside the connection.
\* issued: what became of each statement the deduction has executed.
NoThreads == [pc |-> "start", todo |-> <<>>, issued |-> <<>>, other |-> "idle", ops |-> 0]

\* user_wait_message_sent has no entry for the user.
NoNotice == -1

\* No handler thread is inside a handler.
NoHandlers == <<>>

\* No notice sent so far and no handler thread under way.
InitWeb ==
    /\ user_wait_message_sent = [u \in Users |-> NoNotice]
    /\ handlers = NoHandlers
    /\ now = 0

\* The module state of LINE_Bot_Router after import: no mode, no index.
InitSessions ==
    /\ user_function_state = [u \in Users |-> "none"]
    /\ user_delete_records_mapping = [u \in Users |-> NoMapping]
    /\ has_batch = [u \in Users |-> FALSE]
    /\ next_id = 1
    /\ txn = NoThreads
    /\ InitWeb

\* ------------------------------------------------------------------------
\* Record store and inventory ledger
\* ------------------------------------------------------------------------
\* A row of the foods table.
Row(id, username, food_name, quantity, storage_time) ==
    [id |-> id, username |-> username, food_name |-> food_name,
     quantity |-> quantity, storage_time |-> storage_time]

\* r comes before q in a result ordered by storage_time ASC, rows of equal
\* storage_time in the order tb.
Before(r, q, tb) ==
    \/ r.storage_time < q.storage_time
    \/ /\ r.storage_time = q.storage_time
       /\ IF tb = "id_asc" THEN r.id < q.id ELSE r.id > q.id

\* The rows as a list, ORDER BY storage_time ASC.
RECURSIVE OrderByStorageTime(_, _)
OrderByStorageTime(rows, tb) ==
    IF rows = {} THEN <<>>
    ELSE LET first == CHOOSE r \in rows : \A q \in rows \ {r} : Before(r, q, tb)
         IN <<first>> \o OrderByStorageTime(rows \ {first}, tb)

\* query_food_records_by_name: WHERE username = %s AND food_name = %s ORDER BY
\* storage_time ASC; an exception is caught and gives the empty list.
query_food_records_by_name(table, username, food_name, tb, db_ok) ==
    IF ~db_ok THEN <<>>
    ELSE OrderByStorageTime({r \in table : r.username = username
                                           /\ r.food_name = food_name}, tb)

\* query_user_food_records: WHERE username = %s ORDER BY storage_time ASC; an
\* exception is caught and gives the empty list.
query_user_food_records(table, user_id, tb, db_ok) ==
    IF ~db_ok THEN <<>>
    ELSE OrderByStorageTime({r \in table : r.username = user_id}, tb)

\* cursor.execute of one statement of the ledger on the table.
Execute(table, stmt) ==
    IF stmt.op = "DELETE" THEN {r \in table : r.id # stmt.id}
    ELSE IF stmt.op = "UPDATE"
    THEN {IF r.id = stmt.id THEN [r EXCEPT !.quantity = stmt.quantity] ELSE r : r \in table}
    ELSE table \cup {stmt.row}

RECURSIVE ExecuteAll(_, _)
ExecuteAll(table, stmts) ==
    IF stmts = <<>> THEN table ELSE ExecuteAll(Execute(table, Head(stmts)), Tail(stmts))

\* The loop of deduct_food_quantity with a slip: it walks the list from its
\* newest record.
RECURSIVE DeductLoop_NewestFirst(_, _)
DeductLoop_NewestFirst(records, st) ==
    IF records = <<>> \/ st.remaining_amount <= 0 THEN st
    ELSE LET record == records[Len(records)]
             rest == SubSeq(records, 1, Len(records) - 1)
             current_quantity == record.quantity
         IN IF current_quantity = NoQuantity THEN DeductLoop_NewestFirst(rest, st)
            ELSE IF current_quantity <= st.remaining_amount
            THEN DeductLoop_NewestFirst(rest,
                    [st EXCEPT !.statements = Append(@, [op |-> "DELETE", id |-> record.id]),
                               !.deleted_records = Append(@, [id |-> record.id,
                                                     quantity |-> current_quantity]),
                               !.remaining_amount = @ - current_quantity])
            ELSE DeductLoop_NewestFirst(rest,
                    [st EXCEPT !.statements = Append(@, [op |-> "UPDATE", id |-> record.id,
                                       quantity |-> current_quantity - st.remaining_amount]),
                               !.updated_records = Append(@, [id |-> record.id,
                                       old_quantity |-> current_quantity,
                                       new_quantity |-> current_quantity - st.remaining_amount,
                                       deducted |-> st.remaining_amount]),
                               !.remaining_amount = 0])

\* The loop of deduct_food_quantity over the queried records, oldest first:
\* the statements it issues and the lists it returns.
RECURSIVE DeductLoop(_, _)
DeductLoop(records, st) ==
    IF records = <<>> \/ st.remaining_amount <= 0 THEN st
    ELSE LET record == Head(records)
             current_quantity == record.quantity
         IN IF current_quantity = NoQuantity THEN DeductLoop(Tail(records), st)
            ELSE IF current_quantity <= st.remaining_amount
            THEN DeductLoop(Tail(records),
                    [st EXCEPT !.statements = Append(@, [op |-> "DELETE", id |-> record.id]),
                               !.deleted_records = Append(@, [id |-> record.id,
                                                     quantity |-> current_quantity]),
                               !.remaining_amount = @ - current_quantity])
            ELSE DeductLoop(Tail(records),
                    [st EXCEPT !.statements = Append(@, [op |-> "UPDATE", id |-> record.id,
                                       quantity |-> current_quantity - st.remaining_amount]),
                               !.updated_records = Append(@, [id |-> record.id,
                                       old_quantity |-> current_quantity,
                                       new_quantity |-> current_quantity - st.remaining_amount,
                                       deducted |-> st.remaining_amount]),
                               !.remaining_amount = 0])

\* The local variables before the loop, with a slip: the walk starts from
\* one unit more than the amount asked for.
DeductStart_OneMore(deduct_amount) ==
    [remaining_amount |-> deduct_amount + 1, statements |-> <<>>,
     updated_records |-> <<>>, deleted_records |-> <<>>]

\* The local variables of deduct_food_quantity before its loop.
DeductStart(deduct_amount) ==
    [remaining_amount |-> deduct_amount, statements |-> <<>>,
     updated_records |-> <<>>, deleted_records |-> <<>>]

\* Outcomes of the database during one call: it works, the SELECT raises, or
\* a statement of the walk (or the commit) raises.
DbOutcomes == {"ok", "query_fails", "execute_fails"}

\* The dict returned when the query gave no record, with a slip: nothing is
\* reported as left to take.
NotFound_NothingLeft(deduct_amount) ==
    [success |-> FALSE, kind |-> "not_found", remaining_amount |-> 0,
     updated_records |-> <<>>, deleted_records |-> <<>>]

\* The dict returned when the query gave no record.
NotFound(deduct_amount) ==
    [success |-> FALSE, kind |-> "not_found", remaining_amount |-> deduct_amount,
     updated_records |-> <<>>, deleted_records |-> <<>>]

\* deduct_food_quantity run alone on the connection: the table afterwards
\* and the dict returned.  A raise inside the walk is rolled back.
deduct_food_quantity(table, username, food_name, deduct_amount, tb, db) ==
    LET records == query_food_records_by_name(table, username, food_name, tb,
                                              db # "query_fails")
        st == DeductLoop(records, DeductStart(deduct_amount))
    IN IF records = <<>>
       THEN [table |-> table, result |-> NotFound(deduct_amount)]
       ELSE IF db = "execute_fails"
       THEN [table |-> table,
             result |-> [success |-> FALSE, kind |-> "error",
                         remaining_amount |-> deduct_amount,
                         updated_records |-> <<>>, deleted_records |-> <<>>]]
       ELSE [table |-> ExecuteAll(table, st.statements),
             result |-> [success |-> TRUE, kind |-> "ok",
                         remaining_amount |-> st.remaining_amount,
                         updated_records |-> st.updated_records,
                         deleted_records |-> st.deleted_records]]

\* The line of the consumption report for one item, with a slip: a result
\* that left an amount untaken is rendered as a failure.
ItemLine_ErrorWhenShort(food_name, result) ==
    [food_name |-> food_name, kind |-> result.kind,
     short |-> result.remaining_amount > 0,
     line |-> IF result.success /\ result.remaining_amount <= 0 THEN "done" ELSE "error",
     warning |-> FALSE]

\* The line handle_delete_consumption renders for one item from the dict
\* deduct_food_quantity returned: the deduction with its updated and deleted
\* records, and the warning when an amount is left; or the error line.
ItemLine(food_name, result) ==
    [food_name |-> food_name, kind |-> result.kind,
     short |-> result.remaining_amount > 0,
     line |-> IF result.success THEN "done" ELSE "error",
     warning |-> result.success /\ result.remaining_amount > 0]

\* ------------------------------------------------------------------------
\* The ledger called on a given table (deduct_food_quantity as a function)
\* ------------------------------------------------------------------------
\* What row i of a table a deduction is tried on may hold: a row of
\* ("U1", "apple") of any quantity (NULL included) and of a storage time that
\* may tie or run against the ids, or the oldest row of another owner or of
\* another food.
RowChoices == {<<q, t>> : q \in {NoQuantity} \cup 1..MaxQty, t \in 1..2} \cup {<<0, 0>>}

CandidateRow(i, c) ==
    IF c = <<0, 0>>
    THEN IF i % 2 = 1 THEN Row(i, "U2", "apple", MaxQty, 0)
                      ELSE Row(i, "U1", "pear", MaxQty, 0)
    ELSE Row(i, "U1", "apple", c[1], c[2])

InitFifo ==
    /\ agg = "record"
    /\ image_buffer = [u \in Users |-> <<>>]
    /\ user_timers = [u \in Users |-> NoTimer]
    /\ timers = <<>>
    /\ calls = {}
    /\ flushed = <<>>
    /\ deadlines = <<>>
    /\ burst_ok = [u \in Users |-> TRUE]
    /\ arrived = 0
    /\ \E f \in [1..MaxRows -> RowChoices] :
          foods = {CandidateRow(i, f[i]) : i \in 1..MaxRows}
    /\ durable = foods
    /\ ret = [op |-> "none"]
    /\ InitSessions

\* A caller runs deduct_food_quantity(username, food_name, deduct_amount);
\* ret keeps the call, the dict returned and the line the consumption report
\* renders from it.
DeductCall(username, food_name, deduct_amount, tb, db) ==
    LET out == deduct_food_quantity(foods, username, food_name, deduct_amount, tb, db)
    IN  /\ ret.op = "none"
        /\ foods' = out.table
        /\ durable' = out.table
        /\ ret' = [op |-> "deduct", username |-> username, food_name |-> food_name,
                   amount |-> deduct_amount, tb |-> tb, db |-> db, result |-> out.result,
                   line |-> ItemLine(food_name, out.result)]
        /\ UNCHANGED <<webVars, aggVars, routerVars, txn>>

NextFifo ==
    \E username \in Users, food_name \in FoodNames, deduct_amount \in Amounts,
       tb \in TieBreaks, db \in DbOutcomes :
        DeductCall(username, food_name, deduct_amount, tb, db)

SpecFifo == InitFifo /\ [][NextFifo]_vars

\* ------------------------------------------------------------------------
\* The router: one text event, one image event, one analysed batch at a time
\* ------------------------------------------------------------------------
\* FUNCTION_KEYWORDS in the order the dict is written: detect_function
\* returns the first function one of whose keywords the text holds.
FUNCTION_KEYWORDS == <<"recipe", "record", "view", "delete", "help", "exit">>

\* What get_user_profile(user_id) gives as displayName: a string the user
\* chose, which may be spelled as a user id, or the fallback when the lookup
\* fails.
ProfileNames == Users \cup {"unknown_user"}

\* Text messages: one holding keywords of the functions in tags; "k" or
\* "k amount"; lines of food name and quantity; anything else.
KeywordTexts ==
    {[kind |-> "keyword", tags |-> {t}] : t \in {"recipe", "record", "view", "delete", "help", "exit"}}
        \cup {[kind |-> "keyword", tags |-> {"recipe", "exit"}]}
OrdinalTexts ==
    {[kind |-> "ordinal", k |-> k, amount |-> a] :
        k \in 1..(MaxRecords + 1), a \in {NoQuantity} \cup 1..MaxQty}
ItemTexts ==
    {[kind |-> "items", items |-> <<[food_name |-> "apple", quantity |-> a]>>] :
        a \in {1, MaxQty + 1}}
        \cup {[kind |-> "items", items |-> <<[food_name |-> "apple", quantity |-> 1],
                                             [food_name |-> "pear", quantity |-> MaxQty + 1]>>]}
Texts == KeywordTexts \cup OrdinalTexts \cup ItemTexts \cup {[kind |-> "other"]}

\* The texts route_message tells apart in the mode of the user: outside
\* Delete mode a text without keyword is answered without being read.
Heard(user_id) ==
    IF user_function_state[user_id] = "delete" THEN Texts
    ELSE KeywordTexts \cup {[kind |-> "other"], [kind |-> "ordinal", k |-> 1, amount |-> NoQuantity]}

\* What the collaborators do during one handler: the display name the
\* profile lookup gives, the order of rows of equal storage_time, and what
\* the database does ("render_raises": the query works and a statement of
\* the handler's try block raises afterwards).  Only what the handler of
\* the text consults varies.
Envs(user_id, text) ==
    IF text.kind = "keyword" /\ "view" \in text.tags
    THEN [username : {"unknown_user"}, tb : {"id_asc"},
          db : {"ok", "query_fails", "render_raises"}]
    ELSE IF text.kind = "keyword" /\ "delete" \in text.tags
    THEN [username : {"unknown_user"}, tb : TieBreaks, db : {"ok", "query_fails"}]
    ELSE IF text.kind = "items" /\ user_function_state[user_id] = "delete"
    THEN [username : ProfileNames, tb : {"id_asc"}, db : {"ok", "execute_fails"}]
    ELSE IF /\ text.kind = "ordinal" /\ user_function_state[user_id] = "delete"
            /\ user_delete_records_mapping[user_id].present
            /\ text.k \in DOMAIN user_delete_records_mapping[user_id].entries
    THEN [username : {"unknown_user"}, tb : {"id_asc"},
          db : {"ok", "execute_fails", "connection_lost"}]
    ELSE [username : {"unknown_user"}, tb : {"id_asc"}, db : {"ok"}]

RECURSIVE FirstKeyword(_, _)
FirstKeyword(tags, i) ==
    IF i > Len(FUNCTION_KEYWORDS) THEN "none"
    ELSE IF FUNCTION_KEYWORDS[i] \in tags THEN FUNCTION_KEYWORDS[i]
    ELSE FirstKeyword(tags, i + 1)

detect_function(text) ==
    IF text.kind = "keyword" THEN FirstKeyword(text.tags, 1) ELSE "none"

\* What a handler leaves behind: the modes, the indexes, the table and the
\* message sent to the user.
Out(state, mapping, table, reply) ==
    [user_function_state |-> state, user_delete_records_mapping |-> mapping,
     table |-> table, reply |-> reply]

\* handle_recipe_function with a slip: the mode is set only when no mode is
\* active.
handle_recipe_function_FromNone(user_id) ==
    Out(IF user_function_state[user_id] = "none"
        THEN [user_function_state EXCEPT ![user_id] = "recipe"] ELSE user_function_state,
        user_delete_records_mapping, foods, [kind |-> "recipe_guide"])

handle_recipe_function(user_id) ==
    Out([user_function_state EXCEPT ![user_id] = "recipe"],
        user_delete_records_mapping, foods, [kind |-> "recipe_guide"])

handle_record_function(user_id) ==
    Out([user_function_state EXCEPT ![user_id] = "record"],
        user_delete_records_mapping, foods, [kind |-> "record_guide"])

\* handle_view_function with a slip: the mode is cleared only when the
\* query worked.
handle_view_function_KeepsOnFailure(user_id, env) ==
    LET records == query_user_food_records(foods, user_id, env.tb, env.db # "query_fails")
    IN Out(IF env.db = "ok" THEN [user_function_state EXCEPT ![user_id] = "none"]
                            ELSE user_function_state,
           user_delete_records_mapping, foods,
           IF env.db = "render_raises" THEN [kind |-> "view_error", db |-> env.db]
           ELSE [kind |-> "view_list", n |-> Len(records), db |-> env.db])

\* handle_view_function: the list of the user's records, or the error
\* message of the except block; the stored mode is deleted on both ways.
handle_view_function(user_id, env) ==
    LET records == query_user_food_records(foods, user_id, env.tb, env.db # "query_fails")
    IN Out([user_function_state EXCEPT ![user_id] = "none"],
           user_delete_records_mapping, foods,
           IF env.db = "render_raises" THEN [kind |-> "view_error", db |-> env.db]
           ELSE [kind |-> "view_list", n |-> Len(records), db |-> env.db])

\* The entry the Delete list keeps for one listed record.
Snapshot(record) ==
    [id |-> record.id, food_name |-> record.food_name,
     quantity |-> record.quantity, storage_time |-> record.storage_time]

handle_delete_function(user_id, env) ==
    LET records == query_user_food_records(foods, user_id, env.tb, env.db = "ok")
        state == [user_function_state EXCEPT ![user_id] = "delete"]
    IN IF records = <<>>
       THEN Out(state, user_delete_records_mapping, foods, [kind |-> "delete_list", n |-> 0])
       ELSE Out(state,
                [user_delete_records_mapping EXCEPT ![user_id] =
                    [present |-> TRUE,
                     entries |-> [i \in 1..Len(records) |-> Snapshot(records[i])]]],
                foods, [kind |-> "delete_list", n |-> Len(records)])

\* handle_help_function with a slip: Help is stored as the mode.
handle_help_function_StoresHelp(user_id) ==
    Out([user_function_state EXCEPT ![user_id] = "help"],
        user_delete_records_mapping, foods, [kind |-> "help"])

\* handle_help_function: the help text is the reply; nothing is stored.
handle_help_function(user_id) ==
    Out(user_function_state, user_delete_records_mapping, foods, [kind |-> "help"])

\* handle_exit_function with a slip: the sessions of all users are cleared.
handle_exit_function_ClearsAll(user_id) ==
    Out([u \in Users |-> "none"], [u \in Users |-> NoMapping], foods,
        [kind |-> "exit", was |-> user_function_state[user_id]])

handle_exit_function(user_id) ==
    IF user_function_state[user_id] # "none"
    THEN Out([user_function_state EXCEPT ![user_id] = "none"],
             IF user_function_state[user_id] = "delete"
             THEN [user_delete_records_mapping EXCEPT ![user_id] = NoMapping]
             ELSE user_delete_records_mapping,
             foods, [kind |-> "exit", was |-> user_function_state[user_id]])
    ELSE Out(user_function_state, user_delete_records_mapping, foods,
             [kind |-> "exit", was |-> "none"])

\* delete_food_record_by_id run alone on the connection: SELECT by id, then
\* DELETE and commit; an exception is rolled back.  On a lost connection
\* the rollback of the except block raises as well, and the call raises.
delete_food_record_by_id(table, record_id, db) ==
    IF db = "connection_lost" THEN [table |-> table, success |-> FALSE, raised |-> TRUE]
    ELSE IF db # "ok" THEN [table |-> table, success |-> FALSE, raised |-> FALSE]
    ELSE IF \A r \in table : r.id # record_id
    THEN [table |-> table, success |-> FALSE, raised |-> FALSE]
    ELSE [table |-> Execute(table, [op |-> "DELETE", id |-> record_id]),
          success |-> TRUE, raised |-> FALSE]

\* The loop of handle_delete_consumption over the parsed items: one
\* deduct_food_quantity per item, under the display name.
RECURSIVE DeductItems(_, _, _, _)
DeductItems(table, username, items, env) ==
    IF items = <<>> THEN [table |-> table, results |-> <<>>]
    ELSE LET out == deduct_food_quantity(table, username, Head(items).food_name,
                                         Head(items).quantity, env.tb, env.db)
             rest == DeductItems(out.table, username, Tail(items), env)
         IN [table |-> rest.table, results |-> <<out.result>> \o rest.results]

\* del record_mapping[record_number] with a slip: the entry stays.
RemoveOrdinal_Keeps(entries, k) == entries

\* del record_mapping[record_number] with a slip: the ordinals after k move
\* up by one.
RemoveOrdinal_Renumbers(entries, k) ==
    [i \in {IF j > k THEN j - 1 ELSE j : j \in (DOMAIN entries) \ {k}} |->
        entries[IF i >= k THEN i + 1 ELSE i]]

\* del record_mapping[record_number]
RemoveOrdinal(entries, k) == [i \in (DOMAIN entries) \ {k} |-> entries[i]]

\* record_info['quantity'] = new_quantity with a slip: the entry keeps the
\* quantity of the listing.
UpdateEntry_Keeps(entries, k, new_quantity) == entries

\* record_info['quantity'] = new_quantity
UpdateEntry(entries, k, new_quantity) == [entries EXCEPT ![k].quantity = new_quantity]

\* The message that answers "k" or "k amount".
OrdinalReply(kind, text, env) ==
    [kind |-> kind, k |-> text.k, amount |-> text.amount, db |-> env.db]

\* The except block of handle_delete_consumption with a slip: the exception
\* is raised again.
ExceptReply_Reraise(reply) == reply

\* The except block of handle_delete_consumption: an exception raised in
\* the try block is answered with the error message.
ExceptReply(reply) ==
    IF reply.kind = "raised" THEN [reply EXCEPT !.kind = "consumption_error"] ELSE reply

\* handle_delete_consumption: a text of a user in Delete mode that holds no
\* function keyword.
handle_delete_consumption(user_id, text, env) ==
    LET mapping == user_delete_records_mapping[user_id]
        Same(reply) == Out(user_function_state, user_delete_records_mapping, foods, reply)
    IN IF text.kind = "ordinal"
       THEN IF ~mapping.present THEN Same(OrdinalReply("no_mapping", text, env))
            ELSE IF text.k \notin DOMAIN mapping.entries
            THEN Same(OrdinalReply("ordinal_not_found", text, env))
            ELSE LET record_info == mapping.entries[text.k]
                     result == delete_food_record_by_id(foods, record_info.id, env.db)
                     FullDelete ==
                        IF result.raised
                        THEN Same(ExceptReply(OrdinalReply("raised", text, env)))
                        ELSE IF result.success
                        THEN Out(user_function_state,
                                 [user_delete_records_mapping EXCEPT ![user_id].entries =
                                     RemoveOrdinal(mapping.entries, text.k)],
                                 result.table, OrdinalReply("ordinal_deleted", text, env))
                        ELSE Same(OrdinalReply("delete_failed", text, env))
                     new_quantity == record_info.quantity - text.amount
                 IN IF text.amount # NoQuantity /\ record_info.quantity # NoQuantity
                    THEN IF text.amount >= record_info.quantity THEN FullDelete
                         ELSE IF env.db # "ok" THEN Same(OrdinalReply("update_failed", text, env))
                         ELSE Out(user_function_state,
                                  [user_delete_records_mapping EXCEPT ![user_id].entries =
                                      UpdateEntry(mapping.entries, text.k, new_quantity)],
                                  Execute(foods, [op |-> "UPDATE", id |-> record_info.id,
                                                  quantity |-> new_quantity]),
                                  [kind |-> "ordinal_updated", k |-> text.k,
                                   amount |-> text.amount, db |-> env.db,
                                   old |-> record_info.quantity, new |-> new_quantity])
                    ELSE FullDelete
       ELSE IF text.kind = "items"
       THEN LET out == DeductItems(foods, env.username, text.items, env)
            IN Out(user_function_state, user_delete_records_mapping, out.table,
                   [kind |-> "consumption_report",
                    results |-> [i \in 1..Len(out.results) |->
                                    ItemLine(text.items[i].food_name, out.results[i])]])
       ELSE Same([kind |-> "parse_error"])

\* route_message, a text without keyword in Recipe or Record mode, with a
\* slip: the mode is dropped.
guide_message_DropsMode(user_id) ==
    Out([user_function_state EXCEPT ![user_id] = "none"],
        user_delete_records_mapping, foods, [kind |-> "upload_guide"])

\* route_message, a text without keyword in Recipe or Record mode: the
\* guidance to upload an image.
guide_message(user_id) ==
    Out(user_function_state, user_delete_records_mapping, foods, [kind |-> "upload_guide"])

\* route_message, a text without keyword and no mode: the message that the
\* command is not recognised.
unknown_message(user_id) ==
    Out(user_function_state, user_delete_records_mapping, foods, [kind |-> "unknown"])

\* What route_message does with one text of the user.
RouteMessage(user_id, text, env) ==
    LET function_name == detect_function(text)
        current_function == user_function_state[user_id]
    IN IF function_name = "exit" THEN handle_exit_function(user_id)
       ELSE IF function_name = "recipe" THEN handle_recipe_function(user_id)
       ELSE IF function_name = "record" THEN handle_record_function(user_id)
       ELSE IF function_name = "view" THEN handle_view_function(user_id, env)
       ELSE IF function_name = "delete" THEN handle_delete_function(user_id, env)
       ELSE IF function_name = "help" THEN handle_help_function(user_id)
       ELSE IF current_function = "delete" THEN handle_delete_consumption(user_id, text, env)
       ELSE IF current_function \in {"recipe", "record"} THEN guide_message(user_id)
       ELSE unknown_message(user_id)

\* How many partial deductions of one ordinal the user has made in a row,
\* this reply included.
Streak(reply) ==
    IF reply.kind # "ordinal_updated" THEN 0
    ELSE IF ret.op = "route_message" /\ ret.reply.kind = "ordinal_updated"
            /\ ret.reply.k = reply.k
    THEN ret.streak + 1
    ELSE 1

\* The webhook serves one text event; ret keeps the reply, the keywords
\* the text held and whether they name the mode the user was in.
route_message(user_id, text, env) ==
    LET out == RouteMessage(user_id, text, env)
    IN  /\ user_function_state' = out.user_function_state
        /\ user_delete_records_mapping' = out.user_delete_records_mapping
        /\ foods' = out.table
        /\ durable' = out.table
        /\ ret' = [op |-> "route_message", user |-> user_id, reply |-> out.reply,
                   tags |-> IF text.kind = "keyword" THEN text.tags ELSE {},
                   reentry |-> detect_function(text) = user_function_state[user_id],
                   streak |-> Streak(out.reply)]
        /\ UNCHANGED <<webVars, aggVars, has_batch, next_id, txn>>

\* The webhook serves the image events of one user: record mode hands them
\* to add_image_to_buffer, recipe mode to the recipe aggregator, any other
\* mode answers with guidance.
ImageEvent(user_id) ==
    /\ has_batch' = [has_batch EXCEPT ![user_id] =
                        @ \/ user_function_state[user_id] = "record"]
    /\ ret' = [op |-> "image", user |-> user_id,
               reply |-> [kind |-> IF user_function_state[user_id] = "record" THEN "buffered"
                                   ELSE IF user_function_state[user_id] = "recipe" THEN "wait_notice"
                                   ELSE "image_guide"]]
    /\ UNCHANGED <<webVars, aggVars, dbVars, user_function_state, user_delete_records_mapping, next_id, txn>>

\* The items the analysis of a batch may give: a name with a quantity (0
\* included: "apple 0") or without one.  One food is recorded; consumption
\* texts name it and another.
AnalysedItems ==
    [food_name : {"apple"}, quantity : {NoQuantity} \cup 0..MaxQty]
Batches ==
    {<<>>} \cup {<<a>> : a \in AnalysedItems}
           \cup {<<a, a>> : a \in {x \in AnalysedItems : x.quantity = 1}}

\* The rows step 5 of process_images inserts, one insert_food_record per
\* item, all of one storage_time.
RECURSIVE InsertRows(_, _, _, _)
InsertRows(user_id, items, id, storage_time) ==
    IF items = <<>> THEN {}
    ELSE LET item == Head(items)
             quantity == IF item.quantity = NoQuantity THEN 1 ELSE item.quantity
         IN {Row(id, user_id, item.food_name, quantity, storage_time)}
                \cup InsertRows(user_id, Tail(items), id + 1, storage_time)

\* The relay starts on a table that holds what another user recorded in an
\* earlier run; the users of Senders send events in this one.
StoredBefore == {Row(1, "U2", "apple", MaxQty, 0)}
Senders == {"U1"}

\* A flush of the record aggregator is analysed and stored.
process_images(user_id, items) ==
    /\ has_batch[user_id]
    /\ next_id + Len(items) - 1 <= Cardinality(StoredBefore) + MaxRecords
    /\ has_batch' = [has_batch EXCEPT ![user_id] = FALSE]
    /\ LET rows == InsertRows(user_id, items, next_id, next_id)
       IN  /\ foods' = foods \cup rows
           /\ durable' = foods \cup rows
           /\ next_id' = next_id + Len(items)
           /\ ret' = [op |-> "process_images", user |-> user_id,
                      reply |-> [kind |-> "recorded", n |-> Cardinality(rows)]]
    /\ UNCHANGED <<webVars, aggVars, user_function_state, user_delete_records_mapping, txn>>

InitRouter ==
    /\ agg = "record"
    /\ image_buffer = [u \in Users |-> <<>>]
    /\ user_timers = [u \in Users |-> NoTimer]
    /\ timers = <<>>
    /\ calls = {}
    /\ flushed = <<>>
    /\ deadlines = <<>>
    /\ burst_ok = [u \in Users |-> TRUE]
    /\ arrived = 0
    /\ foods = StoredBefore
    /\ durable = StoredBefore
    /\ ret = [op |-> "none"]
    /\ user_function_state = [u \in Users |-> "none"]
    /\ user_delete_records_mapping = [u \in Users |-> NoMapping]
    /\ has_batch = [u \in Users |-> FALSE]
    /\ next_id = Cardinality(StoredBefore) + 1
    /\ txn = NoThreads
    /\ InitWeb

NextRouter ==
    \E user_id \in Senders :
        \/ \E text \in Heard(user_id) : \E env \in Envs(user_id, text) :
              route_message(user_id, text, env)
        \/ ImageEvent(user_id)
        \/ \E items \in Batches : process_images(user_id, items)

SpecRouter == InitRouter /\ [][NextRouter]_vars

\* ------------------------------------------------------------------------
\* The router on a stocked table: text events only
\* ------------------------------------------------------------------------
\* Quantities of the records a user has stored before the run: absent
\* (NULL) or up to one more than an analysed item brings, so that a record
\* can be reduced more than once.
StockQuantities == {NoQuantity} \cup 1..(MaxQty + 1)

\* The records of the sender, the older one first.
Stocked(q1, q2) ==
    {Row(1, "U1", "apple", q1, 1), Row(2, "U1", "apple", q2, 2)}

InitText ==
    /\ agg = "record"
    /\ image_buffer = [u \in Users |-> <<>>]
    /\ user_timers = [u \in Users |-> NoTimer]
    /\ timers = <<>>
    /\ calls = {}
    /\ flushed = <<>>
    /\ deadlines = <<>>
    /\ burst_ok = [u \in Users |-> TRUE]
    /\ arrived = 0
    /\ \E q1 \in StockQuantities, q2 \in {NoQuantity, 1} :
          foods = Stocked(q1, q2)
    /\ durable = foods
    /\ ret = [op |-> "none"]
    /\ user_function_state = [u \in Users |-> "none"]
    /\ user_delete_records_mapping = [u \in Users |-> NoMapping]
    /\ has_batch = [u \in Users |-> FALSE]
    /\ next_id = 3
    /\ txn = NoThreads
    /\ InitWeb

NextText ==
    \E user_id \in Senders : \E text \in Heard(user_id) : \E env \in Envs(user_id, text) :
        route_message(user_id, text, env)

SpecText == InitText /\ [][NextText]_vars

\* ------------------------------------------------------------------------
\* One deduction and a concurrent caller on db_manager.connection
\* ------------------------------------------------------------------------
\* Every thread works on the one connection: a statement any thread
\* executes joins the connection's open transaction, commit() makes all of
\* it durable and rollback() discards all of it, whoever calls.
Commit(issued) == [i \in DOMAIN issued |-> IF issued[i] = "pending" THEN "durable" ELSE issued[i]]
Rollback(issued) == [i \in DOMAIN issued |-> IF issued[i] = "pending" THEN "discarded" ELSE issued[i]]

InitTxn ==
    /\ agg = "record"
    /\ image_buffer = [u \in Users |-> <<>>]
    /\ user_timers = [u \in Users |-> NoTimer]
    /\ timers = <<>>
    /\ calls = {}
    /\ flushed = <<>>
    /\ deadlines = <<>>
    /\ burst_ok = [u \in Users |-> TRUE]
    /\ arrived = 0
    /\ \E q \in [1..MaxRows -> 1..MaxQty] :
          foods = {Row(i, "U1", "apple", q[i], i) : i \in 1..MaxRows}
    /\ durable = foods
    /\ ret = [op |-> "none"]
    /\ InitSessions

\* deduct_food_quantity up to its loop: the SELECT through the connection
\* fixes the statements the walk will issue.
DeductQuery(deduct_amount, tb) ==
    /\ txn.pc = "start"
    /\ LET records == query_food_records_by_name(foods, "U1", "apple", tb, TRUE)
       IN txn' = [txn EXCEPT
                    !.pc = IF records = <<>> THEN "not_found" ELSE "walk",
                    !.todo = DeductLoop(records, DeductStart(deduct_amount)).statements]
    /\ UNCHANGED <<webVars, aggVars, dbVars, ret, routerVars>>

\* One cursor.execute of the walk.
DeductExecute ==
    /\ txn.pc = "walk" /\ txn.todo # <<>>
    /\ foods' = Execute(foods, Head(txn.todo))
    /\ txn' = [txn EXCEPT !.todo = Tail(@), !.issued = Append(@, "pending")]
    /\ UNCHANGED <<webVars, aggVars, durable, ret, routerVars>>

\* db_manager.connection.commit() after the loop.
DeductCommit ==
    /\ txn.pc = "walk" /\ txn.todo = <<>>
    /\ durable' = foods
    /\ txn' = [txn EXCEPT !.pc = "done", !.issued = Commit(@)]
    /\ UNCHANGED <<webVars, aggVars, foods, ret, routerVars>>

\* A statement of the walk or its commit raises: the except branch rolls
\* the connection back and the call reports failure.
DeductRollback ==
    /\ txn.pc = "walk"
    /\ foods' = durable
    /\ txn' = [txn EXCEPT !.pc = "failed", !.issued = Rollback(@)]
    /\ UNCHANGED <<webVars, aggVars, durable, ret, routerVars>>

\* insert_food_record of a flush thread: cursor.execute of the INSERT.
InsertExecute(quantity) ==
    /\ txn.other = "idle" /\ txn.ops < MaxOps
    /\ foods' = foods \cup {Row(MaxRows + txn.ops + 1, "U1", "apple", quantity,
                                MaxRows + txn.ops + 1)}
    /\ txn' = [txn EXCEPT !.other = "insert", !.ops = @ + 1]
    /\ UNCHANGED <<webVars, aggVars, durable, ret, routerVars>>

\* delete_food_record_by_id of another request: SELECT finds the row,
\* cursor.execute of the DELETE.
DeleteExecute(record_id) ==
    /\ txn.other = "idle" /\ txn.ops < MaxOps
    /\ \E r \in foods : r.id = record_id
    /\ foods' = Execute(foods, [op |-> "DELETE", id |-> record_id])
    /\ txn' = [txn EXCEPT !.other = "delete", !.ops = @ + 1]
    /\ UNCHANGED <<webVars, aggVars, durable, ret, routerVars>>

\* The partial deduction by ordinal of another request: cursor.execute of
\* the UPDATE.
UpdateExecute(record_id, new_quantity) ==
    /\ txn.other = "idle" /\ txn.ops < MaxOps
    /\ foods' = Execute(foods, [op |-> "UPDATE", id |-> record_id, quantity |-> new_quantity])
    /\ txn' = [txn EXCEPT !.other = "update", !.ops = @ + 1]
    /\ UNCHANGED <<webVars, aggVars, durable, ret, routerVars>>

\* The commit() that follows the statement of the other caller.
OtherCommit ==
    /\ txn.other # "idle"
    /\ durable' = foods
    /\ txn' = [txn EXCEPT !.other = "idle", !.issued = Commit(@)]
    /\ UNCHANGED <<webVars, aggVars, foods, ret, routerVars>>

\* The commit() of insert_food_record or delete_food_record_by_id raises:
\* their except branch rolls the connection back.
OtherRollback ==
    /\ txn.other \in {"insert", "delete"}
    /\ foods' = durable
    /\ txn' = [txn EXCEPT !.other = "idle", !.issued = Rollback(@)]
    /\ UNCHANGED <<webVars, aggVars, durable, ret, routerVars>>

NextTxn ==
    \/ \E deduct_amount \in Amounts, tb \in TieBreaks : DeductQuery(deduct_amount, tb)
    \/ DeductExecute
    \/ DeductCommit
    \/ DeductRollback
    \/ \E quantity \in 1..MaxQty : InsertExecute(quantity)
    \/ \E record_id \in 1..MaxRows : DeleteExecute(record_id)
    \/ \E record_id \in 1..MaxRows, new_quantity \in 1..MaxQty : UpdateExecute(record_id, new_quantity)
    \/ OtherCommit
    \/ OtherRollback

SpecTxn == InitTxn /\ [][NextTxn]_vars

\* ------------------------------------------------------------------------
\* Concurrent delete_food_record_by_id calls on db_manager.connection
\* ------------------------------------------------------------------------
\* The handler threads that call delete_food_record_by_id.
Callers == 1..MaxCallers

\* A thread that has not called yet.  record: the row the SELECT fetched, as
\* a set (empty: fetchone() gave None or no SELECT yet).
NotCalled == [pc |-> "idle", record_id |-> 0, record |-> {}, result |-> "none"]

InitDel ==
    /\ agg = "record"
    /\ image_buffer = [u \in Users |-> <<>>]
    /\ user_timers = [u \in Users |-> NoTimer]
    /\ timers = <<>>
    /\ calls = {}
    /\ flushed = <<>>
    /\ deadlines = <<>>
    /\ burst_ok = [u \in Users |-> TRUE]
    /\ arrived = 0
    /\ \E q \in [1..MaxRecords -> {NoQuantity} \cup 1..MaxQty] :
          foods = {Row(i, "U1", "apple", q[i], i) : i \in 1..MaxRecords}
    /\ durable = foods
    /\ ret = [op |-> "none"]
    /\ user_function_state = [u \in Users |-> "none"]
    /\ user_delete_records_mapping = [u \in Users |-> NoMapping]
    /\ has_batch = [u \in Users |-> FALSE]
    /\ next_id = MaxRecords + 1
    /\ txn = NoThreads
    /\ user_wait_message_sent = [u \in Users |-> NoNotice]
    /\ handlers = [t \in Callers |-> NotCalled]
    /\ now = 0

\* A handler thread enters delete_food_record_by_id(record_id).
DeleteCall(t, record_id) ==
    /\ handlers[t].pc = "idle"
    /\ handlers' = [handlers EXCEPT ![t].pc = "select", ![t].record_id = record_id]
    /\ UNCHANGED <<aggVars, dbVars, ret, routerVars, txn, user_wait_message_sent, now>>

\* cursor.execute(select_sql) and fetchone(): no row returns the not-found
\* dict, a row is kept for the dict returned later.
DeleteSelect(t) ==
    /\ handlers[t].pc = "select"
    /\ LET record == {r \in foods : r.id = handlers[t].record_id}
       IN handlers' = IF record = {}
                      THEN [handlers EXCEPT ![t].pc = "returned", ![t].result = "not_found"]
                      ELSE [handlers EXCEPT ![t].pc = "delete", ![t].record = record]
    /\ UNCHANGED <<aggVars, dbVars, ret, routerVars, txn, user_wait_message_sent, now>>

\* cursor.execute(delete_sql): the statement joins the open transaction of
\* the connection; a DELETE that matches no row raises nothing.
DeleteStatement(t) ==
    /\ handlers[t].pc = "delete"
    /\ foods' = Execute(foods, [op |-> "DELETE", id |-> handlers[t].record_id])
    /\ handlers' = [handlers EXCEPT ![t].pc = "commit"]
    /\ UNCHANGED <<aggVars, durable, ret, routerVars, txn, user_wait_message_sent, now>>

\* db_manager.connection.commit() and the return of the success dict with
\* deleted_record built from the row fetched.
DeleteCommit(t) ==
    /\ handlers[t].pc = "commit"
    /\ durable' = foods
    /\ handlers' = [handlers EXCEPT ![t].pc = "returned", ![t].result = "success"]
    /\ UNCHANGED <<aggVars, foods, ret, routerVars, txn, user_wait_message_sent, now>>

\* A statement or the commit raises: the except block rolls the connection
\* back and returns the failure dict.
DeleteRollback(t) ==
    /\ handlers[t].pc \in {"select", "delete", "commit"}
    /\ foods' = durable
    /\ handlers' = [handlers EXCEPT ![t].pc = "returned", ![t].result = "error"]
    /\ UNCHANGED <<aggVars, durable, ret, routerVars, txn, user_wait_message_sent, now>>

NextDel ==
    \E t \in Callers :
        \/ \E record_id \in 1..(MaxRecords + 1) : DeleteCall(t, record_id)
        \/ DeleteSelect(t)
        \/ DeleteStatement(t)
        \/ DeleteCommit(t)
        \/ DeleteRollback(t)

SpecDel == InitDel /\ [][NextDel]_vars

\* ------------------------------------------------------------------------
\* deduct_food_quantity under concurrent callers
\* ------------------------------------------------------------------------
\* A thread that has not called deduct_food_quantity yet.  todo: the
\* statements its loop has still to issue; result: the dict it returns.
NotDeducting == [pc |-> "idle", amount |-> 0, todo |-> <<>>, result |-> NotFound(0)]

\* The table before the calls: records of one (owner, name), the older one
\* first; ret keeps it.
InitPair ==
    /\ agg = "record"
    /\ image_buffer = [u \in Users |-> <<>>]
    /\ user_timers = [u \in Users |-> NoTimer]
    /\ timers = <<>>
    /\ calls = {}
    /\ flushed = <<>>
    /\ deadlines = <<>>
    /\ burst_ok = [u \in Users |-> TRUE]
    /\ arrived = 0
    /\ \E q \in [1..MaxRecords -> {NoQuantity} \cup 1..MaxQty] :
          foods = {Row(i, "U1", "apple", q[i], i) : i \in 1..MaxRecords}
    /\ durable = foods
    /\ ret = [op |-> "table", table |-> foods]
    /\ user_function_state = [u \in Users |-> "none"]
    /\ user_delete_records_mapping = [u \in Users |-> NoMapping]
    /\ has_batch = [u \in Users |-> FALSE]
    /\ next_id = MaxRecords + 1
    /\ txn = NoThreads
    /\ user_wait_message_sent = [u \in Users |-> NoNotice]
    /\ handlers = [t \in Callers |-> NotDeducting]
    /\ now = 0

\* A handler thread enters deduct_food_quantity("U1", "apple", deduct_amount).
PairCall(t, deduct_amount) ==
    /\ handlers[t].pc = "idle"
    /\ handlers' = [handlers EXCEPT ![t].pc = "query", ![t].amount = deduct_amount]
    /\ UNCHANGED <<aggVars, dbVars, ret, routerVars, txn, user_wait_message_sent, now>>

\* query_food_records_by_name through the shared connection: no record
\* returns the not-found dict; otherwise the list read here fixes the
\* statements the loop issues and the lists it returns.
PairQuery(t) ==
    /\ handlers[t].pc = "query"
    /\ LET records == query_food_records_by_name(foods, "U1", "apple",
                                                 CHOOSE tb \in TieBreaks : TRUE, TRUE)
           st == DeductLoop(records, DeductStart(handlers[t].amount))
       IN handlers' =
            IF records = <<>>
            THEN [handlers EXCEPT ![t].pc = "returned",
                                  ![t].result = NotFound(handlers[t].amount)]
            ELSE [handlers EXCEPT ![t].pc = "walk",
                                  ![t].todo = st.statements,
                                  ![t].result = [success |-> TRUE, kind |-> "ok",
                                       remaining_amount |-> st.remaining_amount,
                                       updated_records |-> st.updated_records,
                                       deleted_records |-> st.deleted_records]]
    /\ UNCHANGED <<aggVars, dbVars, ret, routerVars, txn, user_wait_message_sent, now>>

\* One cursor.execute of the loop; a statement that matches no row raises
\* nothing.
PairExecute(t) ==
    /\ handlers[t].pc = "walk" /\ handlers[t].todo # <<>>
    /\ foods' = Execute(foods, Head(handlers[t].todo))
    /\ handlers' = [handlers EXCEPT ![t].todo = Tail(@)]
    /\ UNCHANGED <<aggVars, durable, ret, routerVars, txn, user_wait_message_sent, now>>

\* db_manager.connection.commit() after the loop and the return of the
\* success dict.
PairCommit(t) ==
    /\ handlers[t].pc = "walk" /\ handlers[t].todo = <<>>
    /\ durable' = foods
    /\ handlers' = [handlers EXCEPT ![t].pc = "returned"]
    /\ UNCHANGED <<aggVars, foods, ret, routerVars, txn, user_wait_message_sent, now>>

\* A statement or the commit raises: the except block rolls the connection
\* back and returns the failure dict.
PairRaise(t) ==
    /\ handlers[t].pc = "walk"
    /\ foods' = durable
    /\ handlers' = [handlers EXCEPT ![t].pc = "returned", ![t].todo = <<>>,
                        ![t].result = [success |-> FALSE, kind |-> "error",
                                       remaining_amount |-> handlers[t].amount,
                                       updated_records |-> <<>>,
                                       deleted_records |-> <<>>]]
    /\ UNCHANGED <<aggVars, durable, ret, routerVars, txn, user_wait_message_sent, now>>

NextPair ==
    \E t \in Callers :
        \/ \E deduct_amount \in Amounts : PairCall(t, deduct_amount)
        \/ PairQuery(t)
        \/ PairExecute(t)
        \/ PairCommit(t)
        \/ PairRaise(t)

SpecPair == InitPair /\ [][NextPair]_vars

\* ------------------------------------------------------------------------
\* The "please wait" notice of recipe mode under concurrent deliveries
\* ------------------------------------------------------------------------
\* time.time() when the first delivery arrives: any instant later than
\* WAIT_NOTICE_GAP after the epoch.
BootTime == WAIT_NOTICE_GAP + 1

\* A handler thread outside the recipe branch.
NotServing == [pc |-> "idle", current_time |-> 0]

\* No notice sent so far; previous and last are the current_time of the
\* handlers that sent the last two notices.
NoNotices == [op |-> "wait_notice", previous |-> NoNotice, last |-> NoNotice]

InitWait ==
    /\ agg = "recipe"
    /\ image_buffer = [u \in Users |-> <<>>]
    /\ user_timers = [u \in Users |-> NoTimer]
    /\ timers = <<>>
    /\ calls = {}
    /\ flushed = <<>>
    /\ deadlines = <<>>
    /\ burst_ok = [u \in Users |-> TRUE]
    /\ arrived = 0
    /\ foods = {}
    /\ durable = {}
    /\ ret = NoNotices
    /\ user_function_state = [u \in Users |-> IF u = "U1" THEN "recipe" ELSE "none"]
    /\ user_delete_records_mapping = [u \in Users |-> NoMapping]
    /\ has_batch = [u \in Users |-> FALSE]
    /\ next_id = 1
    /\ txn = NoThreads
    /\ user_wait_message_sent = [u \in Users |-> NoNotice]
    /\ handlers = [t \in Callers |-> NotServing]
    /\ now = BootTime

\* A second passes.
Tick ==
    /\ now < BootTime + MaxTime
    /\ now' = now + 1
    /\ UNCHANGED <<aggVars, dbVars, ret, routerVars, txn, user_wait_message_sent, handlers>>

\* webhook, recipe branch of a delivery with images of user_id:
\* current_time = time.time(); last_sent_time =
\* user_wait_message_sent.get(user_id, 0); the test of the gap.
WaitCheck(t, user_id) ==
    /\ handlers[t].pc = "idle"
    /\ user_function_state[user_id] = "recipe"
    /\ LET current_time == now
           last_sent_time == IF user_wait_message_sent[user_id] = NoNotice THEN 0
                             ELSE user_wait_message_sent[user_id]
       IN handlers' = [handlers EXCEPT ![t] =
                          IF current_time - last_sent_time > WAIT_NOTICE_GAP
                          THEN [pc |-> "send", current_time |-> current_time]
                          ELSE NotServing]
    /\ UNCHANGED <<aggVars, dbVars, ret, routerVars, txn, user_wait_message_sent, now>>

\* line_client.send_text_message(user_id, wait_message): the push request
\* to the platform.
WaitSend(t, user_id) ==
    /\ handlers[t].pc = "send"
    /\ handlers' = [handlers EXCEPT ![t].pc = "store"]
    /\ ret' = [ret EXCEPT !.previous = ret.last, !.last = handlers[t].current_time]
    /\ UNCHANGED <<aggVars, dbVars, routerVars, txn, user_wait_message_sent, now>>

\* user_wait_message_sent[user_id] = current_time
WaitStore(t, user_id) ==
    /\ handlers[t].pc = "store"
    /\ user_wait_message_sent' = [user_wait_message_sent EXCEPT ![user_id] =
                                      handlers[t].current_time]
    /\ handlers' = [handlers EXCEPT ![t] = NotServing]
    /\ UNCHANGED <<aggVars, dbVars, ret, routerVars, txn, now>>

NextWait ==
    \/ Tick
    \/ \E t \in Callers : \E user_id \in Senders :
          \/ WaitCheck(t, user_id)
          \/ WaitSend(t, user_id)
          \/ WaitStore(t, user_id)

SpecWait == InitWait /\ [][NextWait]_vars

\* ------------------------------------------------------------------------
\* The webhook: deliveries of two users, both aggregators
\* ------------------------------------------------------------------------
\* In this part image_buffer[u][a] and user_timers[u][a] are the buffer and
\* the timer handle user u has in aggregator a (record.py and the recipe
\* MessageFlowController keep their own), a timer and a flushed batch name
\* their aggregator, and every user of Users sends.

\* The texts of the deliveries.  The first user sends a keyword of a mode
\* or of Exit, a request by ordinal or a consumption by name; the other
\* user enters and leaves the modes that keep state.
HookTexts(user_id) ==
    IF user_id = "U1"
    THEN {[kind |-> "keyword", tags |-> {t}] : t \in {"recipe", "record", "delete", "exit"}}
            \cup {[kind |-> "ordinal", k |-> 1, amount |-> 1],
                  [kind |-> "items", items |-> <<[food_name |-> "apple", quantity |-> 1]>>]}
    ELSE {[kind |-> "keyword", tags |-> {t}] : t \in {"record", "delete"}}

\* The critical section of add_image_to_buffer / process_line_image of
\* aggregator a for one image event, on the state st of the aggregators.
Ingest(st, a, event) ==
    LET u == event.user
        buf == Append(st.image_buffer[u][a], event)
        buffer_size == Len(buf)
        handle == st.user_timers[u][a]
        cancelled == IF handle # NoTimer THEN TimerCancel(st.timers, handle) ELSE st.timers
    IN  IF event.total # 0 /\ buffer_size >= event.total
        THEN [st EXCEPT !.image_buffer[u][a] = <<>>,
                        !.timers = cancelled,
                        !.user_timers[u][a] = NoTimer,
                        !.flushed = Append(@, [user |-> u, agg |-> a, events |-> buf,
                                               by |-> "early"])]
        ELSE [st EXCEPT !.image_buffer[u][a] = buf,
                        !.timers = Append(cancelled, [user |-> u, agg |-> a,
                                                      state |-> "pending"]),
                        !.user_timers[u][a] = Len(st.timers) + 1]

\* for image_event in image_events: add_image_to_buffer(image_event)
RECURSIVE IngestEach(_, _, _)
IngestEach(st, a, image_events) ==
    IF image_events = <<>> THEN st
    ELSE IngestEach(Ingest(st, a, Head(image_events)), a, Tail(image_events))

\* The image branch of webhook with a slip: the images are handed to the
\* record aggregator whatever the mode is.
RouteImages_AlwaysRecord(st, user_id, current_function, image_events, current_time) ==
    IngestEach(st, "record", image_events)

\* The image branch of webhook for the image events of one user:
\* current_function is the mode read when the branch runs.
RouteImages(st, user_id, current_function, image_events, current_time) ==
    IF image_events = <<>> THEN st
    ELSE IF current_function = "recipe"
    THEN LET last_sent_time == IF st.user_wait_message_sent[user_id] = NoNotice THEN 0
                               ELSE st.user_wait_message_sent[user_id]
             noticed == IF current_time - last_sent_time > WAIT_NOTICE_GAP
                        THEN [st EXCEPT !.user_wait_message_sent[user_id] = current_time,
                                        !.replies = Append(@, "wait_notice")]
                        ELSE st
         IN IF Len(image_events) = 1
            THEN Ingest(noticed, "recipe", image_events[1])
            ELSE [noticed EXCEPT !.flushed = Append(@, [user |-> user_id, agg |-> "recipe",
                                                       events |-> image_events,
                                                       by |-> "handler"])]
    ELSE IF current_function = "record"
    THEN IngestEach(st, "record", image_events)
    ELSE [st EXCEPT !.replies = Append(@, "image_guide")]

InitHook ==
    /\ agg = "record"
    /\ image_buffer = [u \in Users |-> [a \in Aggregators |-> <<>>]]
    /\ user_timers = [u \in Users |-> [a \in Aggregators |-> NoTimer]]
    /\ timers = <<>>
    /\ calls = {}
    /\ flushed = <<>>
    /\ deadlines = <<>>
    /\ burst_ok = [u \in Users |-> TRUE]
    /\ arrived = 0
    /\ foods = {Row(1, "U1", "apple", 1, 1), Row(2, "U2", "apple", 1, 2)}
    /\ durable = foods
    /\ ret = [op |-> "none"]
    /\ user_function_state = [u \in Users |-> "none"]
    /\ user_delete_records_mapping = [u \in Users |-> NoMapping]
    /\ has_batch = [u \in Users |-> FALSE]
    /\ next_id = 3
    /\ txn = NoThreads
    /\ user_wait_message_sent = [u \in Users |-> NoNotice]
    /\ handlers = NoHandlers
    /\ now = BootTime

\* One delivery to the webhook with the events of user_id: texts (none or
\* one) and n images, the images with imageSet.total = total (0: none).
\* The text events are routed first, then the image events by the mode
\* stored at that moment.  ret keeps the number of images, whether the
\* text changed the mode, and the replies the image branch sent.
webhook(user_id, texts, env, n, total) ==
    /\ Len(texts) + n > 0
    /\ arrived + n <= MaxImages
    /\ LET out == IF texts = <<>>
                  THEN Out(user_function_state, user_delete_records_mapping, foods,
                           [kind |-> "none"])
                  ELSE RouteMessage(user_id, texts[1], env)
           image_events == [i \in 1..n |-> [id |-> arrived + i, user |-> user_id,
                                            total |-> total]]
           current_function == out.user_function_state[user_id]
           st == RouteImages([image_buffer |-> image_buffer, user_timers |-> user_timers,
                              timers |-> timers, flushed |-> flushed,
                              user_wait_message_sent |-> user_wait_message_sent,
                              replies |-> <<>>],
                             user_id, current_function, image_events, now)
       IN  /\ user_function_state' = out.user_function_state
           /\ user_delete_records_mapping' = out.user_delete_records_mapping
           /\ foods' = out.table
           /\ durable' = out.table
           /\ image_buffer' = st.image_buffer
           /\ user_timers' = st.user_timers
           /\ timers' = st.timers
           /\ flushed' = st.flushed
           /\ user_wait_message_sent' = st.user_wait_message_sent
           /\ arrived' = arrived + n
           /\ ret' = [op |-> "webhook", user |-> user_id, n |-> n,
                      switched |-> current_function # user_function_state[user_id],
                      replies |-> st.replies]
    /\ UNCHANGED <<agg, calls, deadlines, burst_ok, has_batch, next_id, txn, handlers, now>>

\* The interval of a started timer that was not cancelled ends:
\* process_buffered_images_timeout / _process_buffered_images_timeout of the
\* timer's aggregator runs for the timer's user.
HookTimeout(t) ==
    /\ timers[t].state = "pending"
    /\ LET u == timers[t].user
           a == timers[t].agg
       IN  /\ timers' = [timers EXCEPT ![t].state = "done"]
           /\ ret' = [op |-> "timeout", user |-> u]
           /\ IF Len(image_buffer[u][a]) > 0
              THEN /\ flushed' = Append(flushed, [user |-> u, agg |-> a,
                                                  events |-> image_buffer[u][a],
                                                  by |-> "timer"])
                   /\ image_buffer' = [image_buffer EXCEPT ![u][a] = <<>>]
                   /\ user_timers' = [user_timers EXCEPT ![u][a] = NoTimer]
              ELSE UNCHANGED <<image_buffer, user_timers, flushed>>
    /\ UNCHANGED <<agg, calls, deadlines, burst_ok, arrived, dbVars, routerVars, txn, webVars>>

NextHook ==
    \/ \E user_id \in Users : \E texts \in {<<>>} \cup {<<text>> : text \in HookTexts(user_id)} :
          \E env \in {e \in Envs(user_id, IF texts = <<>> THEN [kind |-> "other"]
                                                ELSE texts[1]) : e.db = "ok"} :
             \E n \in 0..(IF user_id = "U1" THEN MaxImages ELSE 1) :
                \E total \in IF n < 2 THEN {0} ELSE Totals :
                    webhook(user_id, texts, env, n, total)
    \/ \E t \in DOMAIN timers : HookTimeout(t)

SpecHook == InitHook /\ [][NextHook]_vars

\* ------------------------------------------------------------------------
\* Two text events of one user handled at the same time
\* ------------------------------------------------------------------------
\* A handler thread that has not entered a handler.  outcome: "replied"
\* when the handler sent its answer, "key_error" when a dict access raised
\* KeyError.
NotRouted ==
    [pc |-> "idle", current_function |-> "none", record_number |-> 0, record_id |-> 0,
     outcome |-> "none"]

Returned(h, outcome) == [h EXCEPT !.pc = "returned", !.outcome = outcome]

\* The user has listed the records in Delete mode: the mode is "delete" and
\* the index holds a snapshot of every row.  The dict object of the index
\* lives on in entries after its key was deleted (present = FALSE), for
\* the handlers that still hold it in record_mapping.
InitRace ==
    /\ agg = "record"
    /\ image_buffer = [u \in Users |-> <<>>]
    /\ user_timers = [u \in Users |-> NoTimer]
    /\ timers = <<>>
    /\ calls = {}
    /\ flushed = <<>>
    /\ deadlines = <<>>
    /\ burst_ok = [u \in Users |-> TRUE]
    /\ arrived = 0
    /\ \E q \in [1..MaxRecords -> {NoQuantity} \cup 1..MaxQty] :
          foods = {Row(i, "U1", "apple", q[i], i) : i \in 1..MaxRecords}
    /\ durable = foods
    /\ ret = [op |-> "none"]
    /\ user_function_state = [u \in Users |-> IF u = "U1" THEN "delete" ELSE "none"]
    /\ LET records == query_user_food_records(foods, "U1", "id_asc", TRUE)
       IN user_delete_records_mapping =
            [u \in Users |-> IF u = "U1"
                             THEN [present |-> TRUE,
                                   entries |-> [i \in 1..Len(records) |-> Snapshot(records[i])]]
                             ELSE NoMapping]
    /\ has_batch = [u \in Users |-> FALSE]
    /\ next_id = MaxRecords + 1
    /\ txn = NoThreads
    /\ user_wait_message_sent = [u \in Users |-> NoNotice]
    /\ handlers = [t \in Callers |-> NotRouted]
    /\ now = 0

\* route_message found the exit keyword; handle_exit_function:
\* if user_id in user_function_state
ExitTest(t, user_id) ==
    /\ handlers[t].pc = "idle"
    /\ handlers' = [handlers EXCEPT ![t] =
                       IF user_function_state[user_id] # "none"
                       THEN [@ EXCEPT !.pc = "exit_read"]
                       ELSE Returned(@, "replied")]
    /\ UNCHANGED <<aggVars, dbVars, ret, routerVars, txn, user_wait_message_sent, now>>

\* current_function = user_function_state[user_id]
ExitRead(t, user_id) ==
    /\ handlers[t].pc = "exit_read"
    /\ handlers' = [handlers EXCEPT ![t] =
                       IF user_function_state[user_id] = "none"
                       THEN Returned(@, "key_error")
                       ELSE [@ EXCEPT !.pc = "exit_del",
                                      !.current_function = user_function_state[user_id]]]
    /\ UNCHANGED <<aggVars, dbVars, ret, routerVars, txn, user_wait_message_sent, now>>

\* del user_function_state[user_id]
ExitDelState(t, user_id) ==
    /\ handlers[t].pc = "exit_del"
    /\ IF user_function_state[user_id] = "none"
       THEN /\ handlers' = [handlers EXCEPT ![t] = Returned(@, "key_error")]
            /\ UNCHANGED user_function_state
       ELSE /\ handlers' = [handlers EXCEPT ![t].pc = "exit_test_mapping"]
            /\ user_function_state' = [user_function_state EXCEPT ![user_id] = "none"]
    /\ UNCHANGED <<aggVars, dbVars, ret, user_delete_records_mapping, has_batch, next_id,
                   txn, user_wait_message_sent, now>>

\* if current_function == 'delete' and user_id in user_delete_records_mapping
ExitTestMapping(t, user_id) ==
    /\ handlers[t].pc = "exit_test_mapping"
    /\ handlers' = [handlers EXCEPT ![t] =
                       IF /\ handlers[t].current_function = "delete"
                          /\ user_delete_records_mapping[user_id].present
                       THEN [@ EXCEPT !.pc = "exit_del_mapping"]
                       ELSE Returned(@, "replied")]
    /\ UNCHANGED <<aggVars, dbVars, ret, routerVars, txn, user_wait_message_sent, now>>

\* del user_delete_records_mapping[user_id], then the exit message
ExitDelMapping(t, user_id) ==
    /\ handlers[t].pc = "exit_del_mapping"
    /\ IF ~user_delete_records_mapping[user_id].present
       THEN /\ handlers' = [handlers EXCEPT ![t] = Returned(@, "key_error")]
            /\ UNCHANGED user_delete_records_mapping
       ELSE /\ handlers' = [handlers EXCEPT ![t] = Returned(@, "replied")]
            /\ user_delete_records_mapping' =
                  [user_delete_records_mapping EXCEPT ![user_id].present = FALSE]
    /\ UNCHANGED <<aggVars, dbVars, ret, user_function_state, has_batch, next_id,
                   txn, user_wait_message_sent, now>>

\* route_message read the mode "delete" and found no keyword in the text
\* "record_number"; handle_delete_consumption:
\* if user_id not in user_delete_records_mapping
ConsumeTest(t, user_id, record_number) ==
    /\ handlers[t].pc = "idle"
    /\ user_function_state[user_id] = "delete"
    /\ handlers' = [handlers EXCEPT ![t] =
                       IF ~user_delete_records_mapping[user_id].present
                       THEN Returned(@, "replied")
                       ELSE [@ EXCEPT !.pc = "consume_get",
                                      !.record_number = record_number]]
    /\ UNCHANGED <<aggVars, dbVars, ret, routerVars, txn, user_wait_message_sent, now>>

\* record_mapping = user_delete_records_mapping[user_id]; the test of
\* record_number; record_info = record_mapping[record_number].  A KeyError
\* is caught by the except block of the handler, which answers with the
\* error message.
ConsumeGet(t, user_id) ==
    /\ handlers[t].pc = "consume_get"
    /\ LET mapping == user_delete_records_mapping[user_id]
       IN handlers' = [handlers EXCEPT ![t] =
                          IF ~mapping.present THEN Returned(@, "key_error")
                          ELSE IF handlers[t].record_number \notin DOMAIN mapping.entries
                          THEN Returned(@, "replied")
                          ELSE [@ EXCEPT !.pc = "consume_select",
                                         !.record_id =
                                             mapping.entries[handlers[t].record_number].id]]
    /\ UNCHANGED <<aggVars, dbVars, ret, routerVars, txn, user_wait_message_sent, now>>

\* delete_food_record_by_id(record_id): the SELECT
ConsumeSelect(t) ==
    /\ handlers[t].pc = "consume_select"
    /\ handlers' = [handlers EXCEPT ![t] =
                       IF \A r \in foods : r.id # handlers[t].record_id
                       THEN Returned(@, "replied")
                       ELSE [@ EXCEPT !.pc = "consume_delete"]]
    /\ UNCHANGED <<aggVars, dbVars, ret, routerVars, txn, user_wait_message_sent, now>>

\* delete_food_record_by_id(record_id): the DELETE and the commit
ConsumeDelete(t) ==
    /\ handlers[t].pc = "consume_delete"
    /\ foods' = Execute(foods, [op |-> "DELETE", id |-> handlers[t].record_id])
    /\ durable' = foods'
    /\ handlers' = [handlers EXCEPT ![t].pc = "consume_del_entry"]
    /\ UNCHANGED <<aggVars, ret, routerVars, txn, user_wait_message_sent, now>>

\* del record_mapping[record_number], then the success message
ConsumeDelEntry(t, user_id) ==
    /\ handlers[t].pc = "consume_del_entry"
    /\ LET entries == user_delete_records_mapping[user_id].entries
       IN IF handlers[t].record_number \notin DOMAIN entries
          THEN /\ handlers' = [handlers EXCEPT ![t] = Returned(@, "key_error")]
               /\ UNCHANGED user_delete_records_mapping
          ELSE /\ handlers' = [handlers EXCEPT ![t] = Returned(@, "replied")]
               /\ user_delete_records_mapping' =
                     [user_delete_records_mapping EXCEPT ![user_id].entries =
                         RemoveOrdinal(entries, handlers[t].record_number)]
    /\ UNCHANGED <<aggVars, dbVars, ret, user_function_state, has_batch, next_id,
                   txn, user_wait_message_sent, now>>

NextRace ==
    \E t \in Callers : \E user_id \in Senders :
        \/ ExitTest(t, user_id)
        \/ ExitRead(t, user_id)
        \/ ExitDelState(t, user_id)
        \/ ExitTestMapping(t, user_id)
        \/ ExitDelMapping(t, user_id)
        \/ \E record_number \in 1..MaxRecords : ConsumeTest(t, user_id, record_number)
        \/ ConsumeGet(t, user_id)
        \/ ConsumeSelect(t)
        \/ ConsumeDelete(t)
        \/ ConsumeDelEntry(t, user_id)

SpecRace == InitRace /\ [][NextRace]_vars

\* ------------------------------------------------------------------------
\* detect_function on the characters of a text
\* ------------------------------------------------------------------------
\* A text is the sequence of its characters; a character outside ASCII is
\* written by its code point ("U+98DF").  FUNCTION_KEYWORDS with the
\* keywords of every function, in the order of the dict.
FUNCTION_KEYWORD_LISTS ==
    <<
    [func |-> "recipe",
     keywords |->
        <<<<"U+98DF", "U+8B5C", "U+529F", "U+80FD">>,
          <<"U+98DF", "U+8B5C">>,
          <<"r", "e", "c", "i", "p", "e">>,
          <<"R", "e", "c", "i", "p", "e">>,
          <<"R", "E", "C", "I", "P", "E">>,
          <<"U+958B", "U+59CB", "U+98DF", "U+8B5C">>,
          <<"U+4F7F", "U+7528", "U+98DF", "U+8B5C">>,
          <<"U+98DF", "U+8B5C", "U+6A21", "U+5F0F">>>>],
    [func |-> "record",
     keywords |->
        <<<<"U+8A18", "U+9304", "U+529F", "U+80FD">>,
          <<"U+8A18", "U+9304">>,
          <<"r", "e", "c", "o", "r", "d">>,
          <<"R", "e", "c", "o", "r", "d">>,
          <<"R", "E", "C", "O", "R", "D">>,
          <<"U+958B", "U+59CB", "U+8A18", "U+9304">>,
          <<"U+4F7F", "U+7528", "U+8A18", "U+9304">>,
          <<"U+8A18", "U+9304", "U+6A21", "U+5F0F">>>>],
    [func |-> "view",
     keywords |->
        <<<<"U+67E5", "U+770B", "U+529F", "U+80FD">>,
          <<"U+67E5", "U+770B">>,
          <<"v", "i", "e", "w">>,
          <<"V", "i", "e", "w">>,
          <<"V", "I", "E", "W">>,
          <<"U+67E5", "U+8A62">>,
          <<"U+67E5", "U+8A62", "U+529F", "U+80FD">>,
          <<"U+6211", "U+7684", "U+8A18", "U+9304">>,
          <<"U+8A18", "U+9304", "U+67E5", "U+8A62">>>>],
    [func |-> "delete",
     keywords |->
        <<<<"U+522A", "U+9664", "U+529F", "U+80FD">>,
          <<"U+522A", "U+9664">>,
          <<"d", "e", "l", "e", "t", "e">>,
          <<"D", "e", "l", "e", "t", "e">>,
          <<"D", "E", "L", "E", "T", "E">>,
          <<"U+6D88", "U+8017">>,
          <<"U+6D88", "U+8017", "U+529F", "U+80FD">>,
          <<"U+4F7F", "U+7528">>>>],
    [func |-> "help",
     keywords |->
        <<<<"U+5E6B", "U+52A9">>,
          <<"h", "e", "l", "p">>,
          <<"H", "e", "l", "p">>,
          <<"U+529F", "U+80FD">>,
          <<"U+9078", "U+55AE">>,
          <<"m", "e", "n", "u">>,
          <<"M", "e", "n", "u">>,
          <<"U+8AAA", "U+660E">>>>],
    [func |-> "exit",
     keywords |->
        <<<<"U+9000", "U+51FA">>,
          <<"e", "x", "i", "t">>,
          <<"E", "x", "i", "t">>,
          <<"U+7D50", "U+675F">>,
          <<"U+53D6", "U+6D88">>,
          <<"c", "a", "n", "c", "e", "l">>,
          <<"C", "a", "n", "c", "e", "l">>>>]
    >>

UpperCase == <<"A", "B", "C", "D", "E", "F", "G", "H", "I", "J", "K", "L", "M",
              "N", "O", "P", "Q", "R", "S", "T", "U", "V", "W", "X", "Y", "Z">>
LowerCase == <<"a", "b", "c", "d", "e", "f", "g", "h", "i", "j", "k", "l", "m",
              "n", "o", "p", "q", "r", "s", "t", "u", "v", "w", "x", "y", "z">>

\* str.lower() and str.upper() of one character: the letters A-Z and a-z
\* change, every other character stays.
lower(c) ==
    IF \E i \in DOMAIN UpperCase : UpperCase[i] = c
    THEN LowerCase[CHOOSE i \in DOMAIN UpperCase : UpperCase[i] = c] ELSE c
upper(c) ==
    IF \E i \in DOMAIN LowerCase : LowerCase[i] = c
    THEN UpperCase[CHOOSE i \in DOMAIN LowerCase : LowerCase[i] = c] ELSE c

\* str.lower() with a slip: the string is taken as written.
Lower_AsWritten(s) == s

\* str.lower()
Lower(s) == [i \in DOMAIN s |-> lower(s[i])]

\* str.strip(): leading and trailing blanks removed.
RECURSIVE strip(_)
strip(s) ==
    IF s = <<>> THEN s
    ELSE IF Head(s) = " " THEN strip(Tail(s))
    ELSE IF s[Len(s)] = " " THEN strip(SubSeq(s, 1, Len(s) - 1))
    ELSE s

\* keyword in text
Contains(text, keyword) ==
    \E i \in 0..(Len(text) - Len(keyword)) : SubSeq(text, i + 1, i + Len(keyword)) = keyword

\* The loops of detect_function from function f of the dict on: the first
\* function one of whose keywords, lower-cased, is in text_lower.
RECURSIVE DetectFrom(_, _)
DetectFrom(text_lower, f) ==
    IF f > Len(FUNCTION_KEYWORD_LISTS) THEN "none"
    ELSE IF \E j \in DOMAIN FUNCTION_KEYWORD_LISTS[f].keywords :
               Contains(text_lower, Lower(FUNCTION_KEYWORD_LISTS[f].keywords[j]))
    THEN FUNCTION_KEYWORD_LISTS[f].func
    ELSE DetectFrom(text_lower, f + 1)

\* detect_function on the characters of text ("none": None).
detect_function_text(text) == DetectFrom(Lower(strip(text)), 1)

\* Texts the function is tried on: every keyword of the dict as written,
\* alone, between blanks or next to other characters; two keywords of
\* different functions in either order; texts without keyword.
AllKeywords == UNION {Range(FUNCTION_KEYWORD_LISTS[f].keywords) : f \in DOMAIN FUNCTION_KEYWORD_LISTS}
Pads == {<<>>, <<" ">>, <<"x">>}
PairedKeywords ==
    {<<"e", "x", "i", "t">>, <<"H", "e", "l", "p">>, <<"r", "e", "c", "o", "r", "d">>,
     <<"U+9000", "U+51FA">>}
DetectTexts ==
    {p \o k \o q : p \in Pads, k \in AllKeywords, q \in Pads}
        \cup {k1 \o <<" ">> \o k2 : k1 \in PairedKeywords, k2 \in PairedKeywords}
        \cup {<<>>, <<" ">>, <<"h", "i">>, <<"1", " ", "2">>, <<"R", "e", "c", "i", "p">>,
              <<"e", "x", " ", "i", "t">>}

\* The same text in another letter case: all upper, all lower, every
\* letter swapped, or one letter swapped.
Swap(c) == IF lower(c) # c THEN lower(c) ELSE upper(c)
CaseChanges(text) ==
    {[i \in DOMAIN text |-> upper(text[i])], [i \in DOMAIN text |-> lower(text[i])],
     [i \in DOMAIN text |-> Swap(text[i])]}
        \cup {[text EXCEPT ![i] = Swap(@)] : i \in DOMAIN text}

InitDetect ==
    /\ agg = "record"
    /\ image_buffer = [u \in Users |-> <<>>]
    /\ user_timers = [u \in Users |-> NoTimer]
    /\ timers = <<>>
    /\ calls = {}
    /\ flushed = <<>>
    /\ deadlines = <<>>
    /\ burst_ok = [u \in Users |-> TRUE]
    /\ arrived = 0
    /\ foods = {}
    /\ durable = {}
    /\ \E text \in DetectTexts : ret = [op |-> "text", text |-> text]
    /\ InitSessions

\* detect_function is called on the text and on the text in another case.
DetectCall(changed) ==
    /\ ret.op = "text"
    /\ ret' = [op |-> "detect", text |-> ret.text, changed |-> changed,
               tag |-> detect_function_text(ret.text),
               changed_tag |-> detect_function_text(changed)]
    /\ UNCHANGED <<aggVars, dbVars, routerVars, txn, webVars>>

NextDetect == \E changed \in CaseChanges(ret.text) : DetectCall(changed)

SpecDetect == InitDetect /\ [][NextDetect]_vars

\* ------------------------------------------------------------------------
\* handle_delete_consumption on the characters of a text
\* ------------------------------------------------------------------------
\* \d and \s of the regular expressions, on the characters of the texts tried.
IsDigit(c) == c \in {"0", "1", "2", "3", "4", "5", "6", "7", "8", "9"}
IsBlank(c) == c = " "

\* \d+ and \d+(?:\.\d+)? matched against the whole of s.
IsDigits(s) == s # <<>> /\ \A i \in DOMAIN s : IsDigit(s[i])
IsDecimal(s) ==
    \/ IsDigits(s)
    \/ \E i \in DOMAIN s : /\ s[i] = "."
                             /\ IsDigits(SubSeq(s, 1, i - 1))
                             /\ IsDigits(SubSeq(s, i + 1, Len(s)))
IsBlanks(s) == s # <<>> /\ \A i \in DOMAIN s : IsBlank(s[i])

\* int() of a string of digits.
RECURSIVE int(_)
int(s) ==
    IF s = <<>> THEN 0
    ELSE 10 * int(SubSeq(s, 1, Len(s) - 1))
           + (CHOOSE d \in 0..9 : <<"0", "1", "2", "3", "4", "5", "6", "7", "8", "9">>[d + 1] = s[Len(s)])

\* re.match(number_pattern, text_stripped) with number_pattern =
\* ^(\d+)(?:\s+(\d+(?:\.\d+)?))?$ : the groups, or no match.
NoMatch == [matched |-> FALSE, group1 |-> <<>>, group2 |-> <<>>]
number_match(text_stripped) ==
    IF IsDigits(text_stripped)
    THEN [matched |-> TRUE, group1 |-> text_stripped, group2 |-> <<>>]
    ELSE IF \E i, j \in DOMAIN text_stripped :
               /\ i + 1 < j
               /\ IsDigits(SubSeq(text_stripped, 1, i))
               /\ IsBlanks(SubSeq(text_stripped, i + 1, j - 1))
               /\ IsDecimal(SubSeq(text_stripped, j, Len(text_stripped)))
    THEN LET i == CHOOSE i \in DOMAIN text_stripped :
                     /\ IsDigits(SubSeq(text_stripped, 1, i))
                     /\ IsBlank(text_stripped[i + 1])
             j == CHOOSE j \in DOMAIN text_stripped :
                     /\ j > i + 1
                     /\ IsBlanks(SubSeq(text_stripped, i + 1, j - 1))
                     /\ ~IsBlank(text_stripped[j])
         IN [matched |-> TRUE, group1 |-> SubSeq(text_stripped, 1, i),
             group2 |-> SubSeq(text_stripped, j, Len(text_stripped))]
    ELSE NoMatch

\* [^\d\s]
IsNameChar(c) == ~IsDigit(c) /\ ~IsBlank(c)

InClass(c, class) ==
    IF class = "digit" THEN IsDigit(c)
    ELSE IF class = "blank" THEN IsBlank(c)
    ELSE IsNameChar(c)

\* The longest stretch of line from position i on whose characters are all
\* of the class: its last position (i - 1 when there is none).
RECURSIVE StretchEnd(_, _, _)
StretchEnd(line, i, class) ==
    IF i <= Len(line) /\ InClass(line[i], class) THEN StretchEnd(line, i + 1, class)
    ELSE i - 1

\* re.search of ([^\d\s]+?)\s*(\d+(?:\.\d+)?) in one line, from position i
\* on: the leftmost stretch of name characters that blanks and a digit
\* follow gives the food name, the digits (with a fraction) the quantity.
RECURSIVE SearchItem(_, _)
SearchItem(line, i) ==
    IF i > Len(line) THEN <<>>
    ELSE IF ~IsNameChar(line[i]) THEN SearchItem(line, i + 1)
    ELSE LET k == StretchEnd(line, i, "name")
             j == StretchEnd(line, k + 1, "blank") + 1
             e == StretchEnd(line, j, "digit")
             f == StretchEnd(line, e + 2, "digit")
         IN IF e < j THEN SearchItem(line, k + 1)
            ELSE <<[food_name |-> SubSeq(line, i, k),
                    quantity |-> IF e + 1 <= Len(line) /\ line[e + 1] = "." /\ f >= e + 2
                                 THEN SubSeq(line, j, f) ELSE SubSeq(line, j, e)]>>

\* parse_consumption_input on a text of one line: the items found.
parse_consumption_input(text) == SearchItem(strip(text), 1)

\* handle_delete_consumption up to the choice of the request: by ordinal
\* when number_pattern matches the trimmed text, otherwise the items
\* parse_consumption_input finds, otherwise the parse error.
Interpret(text) ==
    LET number_match_ == number_match(strip(text))
        consumption_items == parse_consumption_input(text)
    IN IF number_match_.matched
       THEN [kind |-> "ordinal", record_number |-> int(number_match_.group1),
             deduct_amount |-> number_match_.group2, items |-> <<>>]
       ELSE IF consumption_items = <<>>
       THEN [kind |-> "parse_error", record_number |-> 0, deduct_amount |-> <<>>,
             items |-> <<>>]
       ELSE [kind |-> "by_name", record_number |-> 0, deduct_amount |-> <<>>,
             items |-> consumption_items]

\* Texts of a user in Delete mode that hold no function keyword.
ConsumptionChars == {"1", "3", ".", " ", "a"}
RECURSIVE TextsOfLen(_)
TextsOfLen(n) ==
    IF n = 0 THEN {<<>>}
    ELSE {Append(t, c) : t \in TextsOfLen(n - 1), c \in ConsumptionChars}
ConsumptionTexts == UNION {TextsOfLen(n) : n \in 0..MaxLen}

InitConsume ==
    /\ agg = "record"
    /\ image_buffer = [u \in Users |-> <<>>]
    /\ user_timers = [u \in Users |-> NoTimer]
    /\ timers = <<>>
    /\ calls = {}
    /\ flushed = <<>>
    /\ deadlines = <<>>
    /\ burst_ok = [u \in Users |-> TRUE]
    /\ arrived = 0
    /\ foods = {}
    /\ durable = {}
    /\ \E text \in ConsumptionTexts : ret = [op |-> "text", text |-> text]
    /\ InitSessions

\* handle_delete_consumption reads the text.
ConsumeText ==
    /\ ret.op = "text"
    /\ ret' = [op |-> "interpret", text |-> ret.text, request |-> Interpret(ret.text)]
    /\ UNCHANGED <<aggVars, dbVars, routerVars, txn, webVars>>

NextConsume == ConsumeText

SpecConsume == InitConsume /\ [][NextConsume]_vars

InitAgg ==
    /\ agg \in Aggregators
    /\ image_buffer = [u \in Users |-> <<>>]
    /\ user_timers = [u \in Users |-> NoTimer]
    /\ timers = <<>>
    /\ calls = {}
    /\ flushed = <<>>
    /\ deadlines = <<>>
    /\ burst_ok = [u \in Users |-> TRUE]
    /\ arrived = 0
    /\ foods = {}
    /\ durable = {}
    /\ ret = [op |-> "none"]
    /\ InitSessions

NextAgg ==
    \/ \E u \in Users, total \in Totals : Arrive(u, total)
    \/ \E c \in calls : add_image_to_buffer(c)
    \/ \E c \in calls : process_line_image(c)
    \/ Elapse
    \/ \E t \in DOMAIN timers : TimerFire(t)
    \/ \E t \in DOMAIN timers : process_buffered_images_timeout(t)
    \/ \E t \in DOMAIN timers : _process_buffered_images_timeout(t)

SpecAgg == InitAgg /\ [][NextAgg]_vars

\* ------------------------------------------------------------------------
\* The image branch of the webhook in front of the aggregators
\* ------------------------------------------------------------------------
\* The image events of one delivery with two images of user u.
Delivered(u, total) ==
    <<[id |-> arrived + 1, user |-> u, total |-> total, n |-> Cardinality(Ingested) + 1],
      [id |-> arrived + 2, user |-> u, total |-> total, n |-> Cardinality(Ingested) + 2]>>

\* webhook, recipe branch, len(image_events) > 1: the handler thread calls
\* recipe_flow_controller.process_line_images(image_events) itself, which
\* downloads the images, calls the analysis and sends the reply before it
\* returns; no buffer and no timer is involved.
process_line_images(u, total) ==
    /\ agg = "recipe"
    /\ arrived + 2 <= MaxImages
    /\ arrived' = arrived + 2
    /\ flushed' = Append(flushed, [user |-> u, events |-> Delivered(u, total),
                                   by |-> "handler", premature |-> FALSE])
    /\ UNCHANGED <<webVars, agg, image_buffer, user_timers, timers, calls, deadlines,
                   burst_ok, dbVars, ret, routerVars, txn>>

\* Deliveries with one image (either mode) or with several images in record
\* mode reach the aggregator one call per image; a delivery with several
\* images in recipe mode does not.
NextIngest ==
    \/ NextAgg
    \/ \E u \in Users, total \in Totals : process_line_images(u, total)

SpecIngest == InitAgg /\ [][NextIngest]_vars

\* Time passes, and a started timer that is not cancelled fires and gets the
\* buffer lock.
FairAgg ==
    /\ WF_vars(Elapse)
    /\ \A t \in 1..MaxImages : WF_vars(TimerFire(t))
    /\ \A t \in 1..MaxImages : WF_vars(process_buffered_images_timeout(t))
    /\ \A t \in 1..MaxImages : WF_vars(_process_buffered_images_timeout(t))

SpecAggFair == InitAgg /\ [][NextAgg]_vars /\ FairAgg

\* ------------------------------------------------------------------------
\* Claims about the media aggregator
\* ------------------------------------------------------------------------
\* The ids of the events of a batch.
Ids(events) == {events[k].id : k \in DOMAIN events}

\* The events of a batch are listed in the order they were appended.
InIngestOrder(events) ==
    \A k, l \in DOMAIN events : k < l => events[k].n < events[l].n

\* C1: debounce without group hint.  For a user whose calls each arrived less
\* than W after the previous one and carried no imageSet, at most one flush
\* has happened, it happened after the timer started by the last ingest
\* expired, and it holds every image delivered, in ingest order.
C1_DebounceSingleFlush ==
    \A u \in Users :
        (burst_ok[u] /\ ~Hinted(u)) =>
            /\ Cardinality(FlushesOf(u)) <= 1
            /\ \A i \in FlushesOf(u) :
                  /\ ~flushed[i].premature
                  /\ InIngestOrder(flushed[i].events)
                  /\ Ids(flushed[i].events) = {e.id : e \in EventsOf(u)}

\* C2: no item is flushed twice.  No image event is in two batches or twice
\* in one, a flushed event is no longer buffered, and every batch lists its
\* events in the order they were ingested.
C2_NoItemFlushedTwice ==
    /\ \A i, j \in DOMAIN flushed :
          i # j => Ids(flushed[i].events) \cap Ids(flushed[j].events) = {}
    /\ \A i \in DOMAIN flushed :
          /\ InIngestOrder(flushed[i].events)
          /\ \A u \in Users : Ids(flushed[i].events) \cap Ids(image_buffer[u]) = {}

\* A user has had two batches flushed, one of them by a timer callback.
C2_Witness ==
    \E u \in Users :
        /\ Cardinality(FlushesOf(u)) >= 2
        /\ \E i \in FlushesOf(u) : flushed[i].by = "timer"

\* A buffered image always has a timer of its user that was started, is not
\* cancelled and has not run yet.
C3_LiveTimer ==
    \A u \in Users :
        Len(image_buffer[u]) > 0 =>
            \E t \in DOMAIN timers :
                timers[t].user = u /\ timers[t].state \in {"pending", "fired"}

IsBuffered(id) == \E u \in Users : id \in Ids(image_buffer[u])

IsFlushed(id) == \E i \in DOMAIN flushed : id \in Ids(flushed[i].events)

\* C3: no item is dropped.  Every accepted image event is eventually handed
\* on in a flushed batch, and whenever a buffer is non-empty a started,
\* uncancelled, not-yet-run timer of that user exists.
C3_NoItemDropped ==
    /\ []C3_LiveTimer
    /\ \A id \in 1..MaxImages : IsBuffered(id) ~> IsFlushed(id)

\* A timer callback has flushed a batch of two images.
C3_Witness ==
    \E i \in DOMAIN flushed : flushed[i].by = "timer" /\ Len(flushed[i].events) >= 2

\* The step is the critical section of the ingest call c, c carries an
\* imageSet and the batch reaches its total with c.
CompletesGroup(c) ==
    /\ c \in calls
    /\ c \notin calls'
    /\ c.total # 0
    /\ Len(image_buffer[c.user]) + 1 >= c.total

\* C4: group-hint early flush.  The ingest that completes the declared group
\* flushes the whole batch in its own critical section, cancels the stored
\* timer and removes its handle; and no image of an early batch is in any
\* other batch, whatever timer callbacks run later.
C4_EarlyFlush ==
    /\ [][\A c \in calls :
            CompletesGroup(c) =>
                /\ Len(flushed') = Len(flushed) + 1
                /\ flushed'[Len(flushed')].by = "early"
                /\ flushed'[Len(flushed')].user = c.user
                /\ Ids(flushed'[Len(flushed')].events)
                      = Ids(image_buffer[c.user]) \cup {c.id}
                /\ image_buffer'[c.user] = <<>>
                /\ user_timers'[c.user] = NoTimer
                /\ user_timers[c.user] # NoTimer
                      => timers'[user_timers[c.user]].state # "pending"]_vars
    /\ [](\A i, j \in DOMAIN flushed :
            (flushed[i].by = "early" /\ i # j)
                => Ids(flushed[i].events) \cap Ids(flushed[j].events) = {})

\* An early flush of two images has happened while a timer callback of the
\* same user had already fired and was waiting for the lock.
C4_Witness ==
    \E i \in DOMAIN flushed :
        /\ flushed[i].by = "early"
        /\ Len(flushed[i].events) >= 2
        /\ \E t \in DOMAIN timers :
              timers[t].user = flushed[i].user /\ timers[t].state = "fired"

\* ------------------------------------------------------------------------
\* Oldest-first deduction
\* ------------------------------------------------------------------------
\* The rows a deduction of (username, food_name) may draw on.
Stock(table, username, food_name) ==
    {r \in table : r.username = username /\ r.food_name = food_name
                   /\ r.quantity # NoQuantity}

RECURSIVE SumQuantity(_)
SumQuantity(rows) ==
    IF rows = {} THEN 0
    ELSE LET r == CHOOSE x \in rows : TRUE IN r.quantity + SumQuantity(rows \ {r})

Min(a, b) == IF a <= b THEN a ELSE b

\* What a step did to a row r of the table.
Gone(r) == \A q \in foods' : q.id # r.id
Kept(r) == r \in foods'
Reduced(r) ==
    \E q \in foods' : /\ q.id = r.id
                      /\ q = [r EXCEPT !.quantity = q.quantity]
                      /\ 0 < q.quantity /\ q.quantity < r.quantity

C5_Step ==
    (ret.op = "none" /\ ret'.op = "deduct" /\ ret'.result.success) =>
        LET stock == Stock(foods, ret'.username, ret'.food_name)
            removed == SumQuantity(stock)
                         - SumQuantity(Stock(foods', ret'.username, ret'.food_name))
        IN  /\ \A r \in foods \ stock : Kept(r)
            /\ \A q \in foods' : \E r \in foods : r.id = q.id
            /\ \A r \in stock : Gone(r) \/ Kept(r) \/ Reduced(r)
            /\ Cardinality({r \in stock : Reduced(r)}) <= 1
            /\ \A r1, r2 \in stock :
                  (r1.storage_time < r2.storage_time /\ ~Kept(r2)) => Gone(r1)
            /\ removed = Min(ret'.amount, SumQuantity(stock))
            /\ ret'.result.remaining_amount = ret'.amount - removed
            /\ durable' = foods'

\* The worked case: quantities 2, 3, 5 oldest first and a request of 4.
C5_Example ==
    LET r1 == Row(1, "U1", "apple", 2, 1)
        r2 == Row(2, "U1", "apple", 3, 2)
        r3 == Row(3, "U1", "apple", 5, 3)
        out == deduct_food_quantity({r1, r2, r3}, "U1", "apple", 4, "id_asc", "ok")
    IN  /\ out.table = {[r2 EXCEPT !.quantity = 1], r3}
        /\ out.result.success
        /\ out.result.remaining_amount = 0

\* C5: a deduction of amount A of one (owner, food name) whose database calls
\* succeed consumes the owner's records of that name oldest first by storage
\* time: a record is deleted while its quantity is at most the amount still
\* to take, the first record holding more is reduced by what is left and the
\* walk stops; newer records, records without quantity, and records of other
\* owners or names are untouched; [2, 3, 5] and a request of 4 leave [1, 5].
C5_FifoDeduction == [][C5_Example /\ C5_Step]_vars

\* A call that deleted an older record, reduced the next and left a newer
\* record of the same owner and name as it was.
C5_Witness ==
    /\ ret.op = "deduct" /\ ret.db = "ok"
    /\ Len(ret.result.deleted_records) >= 1
    /\ Len(ret.result.updated_records) = 1
    /\ \E r \in Stock(foods, ret.username, ret.food_name) :
          /\ r.id # ret.result.updated_records[1].id
          /\ r.storage_time > 1

\* ------------------------------------------------------------------------
\* Atomicity of a deduction on the shared connection
\* ------------------------------------------------------------------------
\* C6: the deletes and updates one deduct_food_quantity call issued all
\* commit or none does: when the call fails mid-walk and rolls back, none of
\* its statements is durable, whatever commits other threads issued on the
\* connection meanwhile.
C6_DeductionAtomic ==
    txn.pc = "failed" => \A i \in DOMAIN txn.issued : txn.issued[i] # "durable"

\* ------------------------------------------------------------------------
\* Record store and ordinal index under the router
\* ------------------------------------------------------------------------
\* C7: no record of the store has quantity 0, whatever insertions of record
\* mode, deductions by name and deletions or deductions by ordinal went
\* before.
C7_NoZeroQuantity == \A r \in foods \cup durable : r.quantity # 0

Owned(table, user_id) == {r \in table : r.username = user_id}

\* C8: a consumption by name of user U in Delete mode reads and changes only
\* the records whose owner is U's user id: no record of another owner is
\* changed, and a name U owns a record of is not answered "not found".
C8_IdentityIsUserId ==
    [][(ret'.op = "route_message" /\ ret'.reply.kind = "consumption_report") =>
          /\ \A r \in foods : r.username # ret'.user => r \in foods'
          /\ \A i \in DOMAIN ret'.reply.results :
                ret'.reply.results[i].kind = "not_found" =>
                    \A r \in Owned(foods, ret'.user) :
                        r.food_name # ret'.reply.results[i].food_name]_vars

OrdinalKinds == {"no_mapping", "ordinal_not_found", "ordinal_deleted", "delete_failed",
                 "update_failed", "ordinal_updated"}

C9_Step ==
    (ret'.op = "route_message" /\ ret'.reply.kind \in OrdinalKinds) =>
        LET u == ret'.user
            k == ret'.reply.k
            before == user_delete_records_mapping[u]
            after == user_delete_records_mapping'[u]
            listed == before.present /\ k \in DOMAIN before.entries
        IN  /\ user_function_state[u] = "delete"
            \* a listed bare number whose record is stored is deleted
            /\ (/\ listed /\ ret'.reply.amount = NoQuantity /\ ret'.reply.db = "ok"
                /\ \E r \in foods : r.id = before.entries[k].id)
                  => ret'.reply.kind = "ordinal_deleted"
            \* a deletion removes that record and that ordinal, nothing else
            /\ ret'.reply.kind = "ordinal_deleted" =>
                  /\ listed
                  /\ foods' = {r \in foods : r.id # before.entries[k].id}
                  /\ foods' # foods
                  /\ durable' = foods'
                  /\ after.present
                  /\ DOMAIN after.entries = (DOMAIN before.entries) \ {k}
                  /\ \A i \in DOMAIN after.entries : after.entries[i] = before.entries[i]
            \* an ordinal that is not listed is answered NotFound, nothing deleted
            /\ (before.present /\ k \notin DOMAIN before.entries) =>
                  /\ ret'.reply.kind = "ordinal_not_found"
                  /\ foods' = foods /\ durable' = durable
                  /\ after = before

\* Only a rebuild of the list brings an ordinal back.
C9_NoReturn ==
    \A u \in Users :
        (user_delete_records_mapping[u].present /\ ret'.reply.kind # "delete_list") =>
            \/ ~user_delete_records_mapping'[u].present
            \/ DOMAIN user_delete_records_mapping'[u].entries
                  \subseteq DOMAIN user_delete_records_mapping[u].entries

\* C9: in Delete mode with ordinals listed, a bare number k that is listed
\* (its record stored, the database working) deletes the record snapshotted
\* at k and removes k from the index; until the list is rebuilt k stays
\* unlisted, and an input k is answered NotFound and deletes nothing.
C9_OrdinalDeletion == [][C9_Step /\ C9_NoReturn]_vars

\* A record listed at an ordinal was deleted by its number, a later ordinal
\* is still listed, and the same number was sent again and answered NotFound.
C9_Witness ==
    /\ ret.op = "route_message" /\ ret.reply.kind = "ordinal_not_found"
    /\ ret.reply.amount = NoQuantity
    /\ user_delete_records_mapping[ret.user].present
    /\ \E j \in DOMAIN user_delete_records_mapping[ret.user].entries : j > ret.reply.k
    /\ Cardinality(Owned(foods, ret.user)) = 1

\* The index a fresh build gives: ordinals 1..N on the user's N stored
\* records, ascending by storage time.
IsFreshIndex(mapping, table, user_id) ==
    /\ mapping.present
    /\ DOMAIN mapping.entries = 1..Cardinality(Owned(table, user_id))
    /\ {mapping.entries[i] : i \in DOMAIN mapping.entries}
          = {Snapshot(r) : r \in Owned(table, user_id)}
    /\ \A i, j \in DOMAIN mapping.entries :
          i < j => mapping.entries[i].storage_time <= mapping.entries[j].storage_time

\* C10: when handle_delete_function completes, the user's index maps the
\* ordinals 1..N to the user's N stored records in ascending storage time
\* and holds no entry of an earlier listing; with no records (or none
\* read) it is empty or absent.
C10_IndexBuiltFresh ==
    [][(ret'.op = "route_message" /\ ret'.reply.kind = "delete_list") =>
          LET after == user_delete_records_mapping'[ret'.user]
          IN  \/ IsFreshIndex(after, foods', ret'.user)
              \/ ~after.present
              \/ DOMAIN after.entries = {}]_vars

\* The step is route_message for a text of the user.
TextStep == ret'.op = "route_message"

\* C11: when a user in Delete mode sends a text whose detected function is
\* Recipe or Record, the mode becomes that function, its guide is the
\* reply, and the user has no ordinal index afterwards.
C11_ModeSwitchDiscardsIndex ==
    [][(/\ TextStep
        /\ user_function_state[ret'.user] = "delete"
        /\ detect_function([kind |-> "keyword", tags |-> ret'.tags]) \in {"recipe", "record"})
          => /\ user_function_state'[ret'.user]
                    = detect_function([kind |-> "keyword", tags |-> ret'.tags])
             /\ ret'.reply.kind \in {"recipe_guide", "record_guide"}
             /\ ~user_delete_records_mapping'[ret'.user].present]_vars

\* C12: when the detected function is Exit, afterwards the user has no mode
\* and no ordinal index, whatever the mode was, and the reply names the
\* mode that was active (none: the neutral message).
C12_ExitClearsSession ==
    [][(TextStep /\ detect_function([kind |-> "keyword", tags |-> ret'.tags]) = "exit")
          => /\ user_function_state'[ret'.user] = "none"
             /\ ~user_delete_records_mapping'[ret'.user].present
             /\ ret'.reply.kind = "exit"
             /\ ret'.reply.was = user_function_state[ret'.user]]_vars

\* C13: for every text that holds an exit keyword, also one that holds a
\* keyword of another function as well, route_message performs the Exit
\* transition: the reply is the farewell and the user has no mode.
C13_ExitPriority ==
    [][(TextStep /\ "exit" \in ret'.tags)
          => /\ ret'.reply.kind = "exit"
             /\ user_function_state'[ret'.user] = "none"]_vars

\* The function detect_function finds in the text of the step.
Detected == detect_function([kind |-> "keyword", tags |-> ret'.tags])

\* C14: after handle_view_function the user has no stored mode, whether the
\* query and the rendering worked, the query failed or the handler raised,
\* and whatever the mode was before.
C14_ViewEndsInNone ==
    [][(TextStep /\ Detected = "view")
          => /\ ret'.reply.kind \in {"view_list", "view_error"}
             /\ user_function_state'[ret'.user] = "none"]_vars

\* View was asked for after a Delete listing, the handler raised, and the
\* user has no mode.
C14_Witness ==
    /\ ret.op = "route_message" /\ ret.reply.kind = "view_error"
    /\ ret.reply.db = "render_raises"
    /\ user_delete_records_mapping[ret.user].present
    /\ user_function_state[ret.user] = "none"

\* The reply the entry handler of a mode sends.
EntryReply(function_name) ==
    IF function_name = "recipe" THEN "recipe_guide"
    ELSE IF function_name = "record" THEN "record_guide"
    ELSE "delete_list"

\* C15: when the detected function is Recipe, Record or Delete, afterwards
\* the user's mode is that function, whatever the mode was before (none, the
\* same, another), and the entry handler has run: its guide or listing is
\* the reply, also on re-entering the same mode.
C15_ModeEntryFromAnyState ==
    [][(TextStep /\ Detected \in {"recipe", "record", "delete"})
          => /\ user_function_state'[ret'.user] = Detected
             /\ ret'.reply.kind = EntryReply(Detected)]_vars

\* Recipe mode was entered again from Recipe mode and the guide was sent
\* again.
C15_Witness ==
    /\ ret.op = "route_message" /\ ret.reply.kind = "recipe_guide"
    /\ ret.reentry
    /\ user_function_state[ret.user] = "recipe"

\* C16: a text with no detected function, outside Delete mode: in Recipe or
\* Record mode the reply is the guidance to upload an image, with no mode
\* it is the unrecognised-command message, and the mode, the ordinal index
\* and the record store are unchanged.
C16_NoFunctionLeavesSession ==
    [][(TextStep /\ Detected = "none" /\ user_function_state[ret'.user] # "delete")
          => /\ ret'.reply.kind =
                    IF user_function_state[ret'.user] \in {"recipe", "record"}
                    THEN "upload_guide" ELSE "unknown"
             /\ UNCHANGED <<user_function_state, user_delete_records_mapping,
                            foods, durable>>]_vars

\* In Record mode, with an index of an earlier Delete listing still stored,
\* a text without keyword was answered by the guidance.
C16_Witness ==
    /\ ret.op = "route_message" /\ ret.reply.kind = "upload_guide"
    /\ user_function_state[ret.user] = "record"
    /\ user_delete_records_mapping[ret.user].present
    /\ user_delete_records_mapping[ret.user].entries # <<>>

\* The messages route_message sends; each is one reply or push.
ReplyKinds ==
    {"recipe_guide", "record_guide", "view_list", "view_error", "delete_list", "help", "exit",
     "upload_guide", "unknown", "parse_error", "consumption_report",
     "consumption_error"} \cup OrdinalKinds

OrdinalStep ==
    /\ TextStep
    /\ user_function_state[ret'.user] = "delete"
    /\ ret'.tags = {}
    /\ ret'.reply.kind \in OrdinalKinds \cup {"consumption_error"}

\* The index of the user of the step resolves the ordinal of the step.
Resolves ==
    /\ user_delete_records_mapping[ret'.user].present
    /\ ret'.reply.k \in DOMAIN user_delete_records_mapping[ret'.user].entries

\* The cached entry the ordinal of the step resolves to.
Entry == user_delete_records_mapping[ret'.user].entries[ret'.reply.k]

\* The rows of the table with the given id.
ById(table, id) == {r \in table : r.id = id}

\* C18: with the database working, a request by ordinal that resolves to
\* a cached entry deletes the record when no amount is given or the amount
\* is at least the entry's quantity; otherwise the record is kept, its
\* stored quantity is reduced by exactly the amount and the cached quantity
\* is set to the new stored value.  A request whose ordinal does not resolve
\* changes neither the store nor the index.
C18_OrdinalDispatch ==
    [][(OrdinalStep /\ ret'.reply.db = "ok") =>
          IF ~Resolves
          THEN UNCHANGED <<foods, durable, user_delete_records_mapping>>
          ELSE IF ret'.reply.amount = NoQuantity
                  \/ (Entry.quantity # NoQuantity /\ ret'.reply.amount >= Entry.quantity)
          THEN ById(foods', Entry.id) = {}
          ELSE Entry.quantity # NoQuantity =>
                  /\ \E r \in ById(foods, Entry.id) :
                        ById(foods', Entry.id)
                            = {[r EXCEPT !.quantity = r.quantity - ret'.reply.amount]}
                  /\ \A r \in ById(foods', Entry.id) :
                        user_delete_records_mapping'[ret'.user].entries[ret'.reply.k].quantity
                            = r.quantity]_vars

\* C19: the quantity a partial deduction by ordinal writes to a record is
\* the quantity the record holds in the store at that moment minus the
\* amount asked for, whatever the index has cached.
C19_IndexIsNotTheSource ==
    [][(OrdinalStep /\ ret'.reply.kind = "ordinal_updated") =>
          \A r \in ById(foods, Entry.id) :
              ById(foods', Entry.id)
                  = {[r EXCEPT !.quantity = r.quantity - ret'.reply.amount]}]_vars

\* The cached entries of the user agree with the store: each record still
\* stored holds the quantity its entry has cached.
Agrees(mapping, table) ==
    \A k \in DOMAIN mapping.entries :
        \A r \in ById(table, mapping.entries[k].id) :
            r.quantity = mapping.entries[k].quantity

\* A listing caches the stored quantities.
C20_Listing ==
    (TextStep /\ ret'.reply.kind = "delete_list" /\ ret'.reply.n > 0) =>
        Agrees(user_delete_records_mapping'[ret'.user], foods')

\* A partial deduction by ordinal of a record that holds what its entry has
\* cached takes the amount from both, and leaves every other entry and
\* record alone.
C20_Deduction ==
    (/\ OrdinalStep /\ ret'.reply.kind = "ordinal_updated"
     /\ \E r \in ById(foods, Entry.id) : r.quantity = Entry.quantity) =>
        LET after == user_delete_records_mapping'[ret'.user].entries
        IN  /\ ret'.reply.amount > 0
            /\ after[ret'.reply.k].quantity = Entry.quantity - ret'.reply.amount
            /\ \A r \in ById(foods', Entry.id) :
                  r.quantity = after[ret'.reply.k].quantity
            /\ ById(foods', Entry.id) # {}
            /\ durable' = foods'
            /\ \A r \in foods : r.id # Entry.id => r \in foods'
            /\ DOMAIN after = DOMAIN user_delete_records_mapping[ret'.user].entries
            /\ \A j \in DOMAIN after : j # ret'.reply.k =>
                  after[j] = user_delete_records_mapping[ret'.user].entries[j]

\* A step that changes a cached quantity is a partial deduction of that
\* ordinal or a listing.
C20_NoOtherWriter ==
    \A u \in Users :
        \A k \in DOMAIN user_delete_records_mapping[u].entries :
            (/\ user_delete_records_mapping'[u].present
             /\ k \in DOMAIN user_delete_records_mapping'[u].entries
             /\ user_delete_records_mapping'[u].entries[k]
                    # user_delete_records_mapping[u].entries[k])
                => \/ ret'.reply.kind = "delete_list"
                   \/ ret'.reply.kind = "ordinal_updated" /\ ret'.reply.k = k

\* C20: after successful partial deductions of one ordinal, the record not
\* changed otherwise, the cached quantity of the entry is the stored
\* quantity of the record and is the quantity at list time minus the
\* amounts deducted.  In steps: the listing caches the stored quantity,
\* each such deduction takes its amount from the cached and from the stored
\* quantity alike, and nothing else writes a cached quantity.
C20_RepeatedPartialDeductions ==
    [][C20_Listing /\ C20_Deduction /\ C20_NoOtherWriter]_vars

\* A record listed with more than two units was reduced by its ordinal two
\* times in a row; the entry and the record hold the same quantity.
C20_Witness ==
    /\ ret.op = "route_message" /\ ret.reply.kind = "ordinal_updated"
    /\ ret.streak = 2
    /\ LET e == user_delete_records_mapping[ret.user].entries[ret.reply.k]
       IN  /\ e.quantity = ret.reply.new
           /\ \E r \in ById(foods, e.id) : r.quantity = e.quantity

\* ------------------------------------------------------------------------
\* Deduction outcomes: unknown name, partial fulfilment
\* ------------------------------------------------------------------------
\* The rows of (username, food_name), with or without a quantity.
Named(table, username, food_name) ==
    {r \in table : r.username = username /\ r.food_name = food_name}

DeductStep == ret.op = "none" /\ ret'.op = "deduct"

C22_PartialFulfilment ==
    [][(/\ DeductStep /\ ret'.db = "ok"
        /\ Named(foods, ret'.username, ret'.food_name) # {}
        /\ ret'.amount > SumQuantity(Stock(foods, ret'.username, ret'.food_name))) =>
          LET stock == Stock(foods, ret'.username, ret'.food_name)
          IN  /\ foods' = foods \ stock
              /\ {d.id : d \in Range(ret'.result.deleted_records)} = {r.id : r \in stock}
              /\ ret'.result.updated_records = <<>>
              /\ ret'.result.success
              /\ ret'.result.remaining_amount = ret'.amount - SumQuantity(stock)
              /\ ret'.result.remaining_amount > 0
              /\ ret'.line.line = "done"
              /\ ret'.line.warning]_vars

\* A call that deleted two records of the name, left a record of the name
\* without quantity in place, and still had an amount to take.
C22_Witness ==
    /\ ret.op = "deduct" /\ ret.db = "ok"
    /\ ret.result.success
    /\ Len(ret.result.deleted_records) = 2
    /\ ret.result.remaining_amount > 0
    /\ ret.line.warning
    /\ \E r \in Named(foods, ret.username, ret.food_name) : r.quantity = NoQuantity

\* ------------------------------------------------------------------------
\* Deletion by id under concurrent callers
\* ------------------------------------------------------------------------
Succeeded(t) == handlers[t].pc = "returned" /\ handlers[t].result = "success"

\* C23: among the delete_food_record_by_id calls made for one record id,
\* one after another or at the same time, at most one returns success with
\* the snapshot of the record.
C23_DeleteByIdOnce ==
    \A t1, t2 \in DOMAIN handlers :
        (/\ Succeeded(t1) /\ Succeeded(t2)
         /\ handlers[t1].record_id = handlers[t2].record_id) => t1 = t2

\* ------------------------------------------------------------------------
\* The wait notice
\* ------------------------------------------------------------------------
\* C24: any two "please wait" notices sent to one user are more than
\* WAIT_NOTICE_GAP seconds apart, also when deliveries with images of the
\* user are handled at the same time.
C24_WaitNoticeOncePerGap ==
    (ret.op = "wait_notice" /\ ret.previous # NoNotice) =>
        \/ ret.last - ret.previous > WAIT_NOTICE_GAP
        \/ ret.previous - ret.last > WAIT_NOTICE_GAP

\* ------------------------------------------------------------------------
\* Where downstream processing runs
\* ------------------------------------------------------------------------
\* C25: for every image event received in Recipe or Record mode the handler
\* of the webhook only appends to the batch of the user and starts a timer;
\* every batch handed to downstream processing (download, analysis, reply)
\* is processed on a thread started by a flush (timer or early), never on
\* the handler thread, for deliveries of one image and of several.
C25_IngestNeverBlocks ==
    \A i \in DOMAIN flushed : flushed[i].by \in {"timer", "early"}

\* ------------------------------------------------------------------------
\* Last scheduling wins
\* ------------------------------------------------------------------------
\* The timers of user u whose callback can still flush: started, not
\* cancelled, and not yet through process_buffered_images_timeout.
CanStillFlush(u) ==
    {t \in DOMAIN timers : timers[t].user = u /\ timers[t].state \in {"pending", "fired"}}

\* C26: every ingest cancels the pending timer of the user before it starts
\* a new one, so at every moment at most one timer of a user can still
\* flush, and the handle user_timers stores for the user is that timer.
C26_LastSchedulingWins ==
    \A u \in Users :
        /\ Cardinality(CanStillFlush(u)) <= 1
        /\ CanStillFlush(u) # {} => user_timers[u] \in CanStillFlush(u)

\* ------------------------------------------------------------------------
\* Critical sections around the session state and the ordinal index
\* ------------------------------------------------------------------------
\* C27: when two events of one user are handled at the same time (two Exit
\* texts, two deletions of the same ordinal, an Exit and a Delete-mode
\* input), every test-then-update of user_function_state and of
\* user_delete_records_mapping is atomic: no handler gets a KeyError for an
\* entry it has just tested because the other handler removed it.
C27_SessionCriticalSections ==
    \A t \in DOMAIN handlers : handlers[t].outcome # "key_error"

\* ------------------------------------------------------------------------
\* Keyword detection
\* ------------------------------------------------------------------------
\* The functions one of whose keywords, as the dict writes it, occurs in the
\* trimmed lower-cased text.
Occurring(text) ==
    {f \in DOMAIN FUNCTION_KEYWORD_LISTS :
        \E keyword \in Range(FUNCTION_KEYWORD_LISTS[f].keywords) :
            Contains(Lower(strip(text)), keyword)}

FirstInTableOrder(text) ==
    IF Occurring(text) = {} THEN "none"
    ELSE FUNCTION_KEYWORD_LISTS[CHOOSE f \in Occurring(text) :
                                   \A g \in Occurring(text) : f <= g].func

\* C28: detect_function returns the same tag for a text and for the text in
\* any other letter case, and the tag is the first in table order (recipe,
\* record, view, delete, help, exit) that has a keyword occurring in the
\* trimmed lower-cased text, or None when no keyword occurs; the tags of a
\* text given to the router's detect_function stand for the same choice.
C28_DetectCaseInsensitive ==
    ret.op = "detect" =>
        /\ ret.tag = ret.changed_tag
        /\ ret.tag = FirstInTableOrder(ret.text)
        /\ ret.tag = detect_function([kind |-> "keyword",
                          tags |-> {FUNCTION_KEYWORD_LISTS[f].func : f \in Occurring(ret.text)}])
        /\ [f \in DOMAIN FUNCTION_KEYWORD_LISTS |-> FUNCTION_KEYWORD_LISTS[f].func]
              = FUNCTION_KEYWORDS

\* "RECORD" and "record" were both detected as record.
C28_Witness ==
    /\ ret.op = "detect"
    /\ ret.text = <<"R", "E", "C", "O", "R", "D">>
    /\ ret.changed = <<"r", "e", "c", "o", "r", "d">>
    /\ ret.tag = "record" /\ ret.changed_tag = "record"

\* ------------------------------------------------------------------------
\* The closing hint of a consumption reply
\* ------------------------------------------------------------------------
\* The messages handle_delete_consumption sends.
ConsumptionKinds == OrdinalKinds \cup {"parse_error", "consumption_report", "consumption_error"}

\* The text of the message ends with the sentence that points to the View
\* function: handle_delete_consumption appends it to final_message, the
\* report of the by-name items, and to no other message it builds.
EndsWithViewHint(reply) == reply.kind = "consumption_report"

\* C29: every reply of handle_delete_consumption, to an ordinal request as
\* to a by-name request, for success, partial and failure outcomes, ends
\* with the hint to look at the records again in View mode.
C29_ReplyEndsWithViewHint ==
    [][(TextStep /\ ret'.reply.kind \in ConsumptionKinds) =>
          EndsWithViewHint(ret'.reply)]_vars

\* ------------------------------------------------------------------------
\* The ordinal form of a consumption text
\* ------------------------------------------------------------------------
\* The trimmed text is one number, or two numbers with blanks between,
\* where the single or the second number may have a decimal part.
IsOrdinalForm(text_stripped) ==
    \/ IsDecimal(text_stripped)
    \/ \E i, j \in DOMAIN text_stripped :
          /\ i + 1 < j
          /\ IsDigits(SubSeq(text_stripped, 1, i))
          /\ IsBlanks(SubSeq(text_stripped, i + 1, j - 1))
          /\ IsDecimal(SubSeq(text_stripped, j, Len(text_stripped)))

\* C30: every trimmed Delete-mode input that is one number or two
\* whitespace-separated numbers, the single or the second number with or
\* without a decimal part, is taken as one request by ordinal (first number
\* the ordinal, second number the amount) and never as a request by name.
C30_OrdinalForm ==
    (ret.op = "interpret" /\ IsOrdinalForm(strip(ret.text))) =>
        /\ ret.request.kind = "ordinal"
        /\ ret.request.items = <<>>

\* ------------------------------------------------------------------------
\* Consumption and the record store
\* ------------------------------------------------------------------------
\* The step answers a text of a user in Delete mode that holds no keyword:
\* a deletion or deduction by ordinal, or a consumption by name.
ConsumptionStep ==
    /\ TextStep
    /\ user_function_state[ret'.user] = "delete"
    /\ ret'.tags = {}

\* C31: consumption never increases stock: after every operation of Delete
\* mode (deletion by ordinal, partial deduction by ordinal, deduction by
\* name, in any order within one listing) every stored record was stored
\* before with a quantity at least as large, so no quantity grows and no
\* deleted record comes back.
C31_ConsumptionNeverIncreases ==
    [][ConsumptionStep =>
          \A r \in foods' : \E q \in foods :
              /\ q.id = r.id
              /\ r.quantity <= q.quantity]_vars

\* The sum of a sequence of numbers.
RECURSIVE SumSeq(_)
SumSeq(s) == IF s = <<>> THEN 0 ELSE Head(s) + SumSeq(Tail(s))

\* The place of the record with the given id in the list the call queried.
PlaceOf(records, id) == CHOOSE i \in DOMAIN records : records[i].id = id

\* C32: deduction accounting: for every successful deduct_food_quantity
\* call the amount asked for is the sum of the quantities of
\* deleted_records plus the sum of deducted over updated_records plus
\* remaining_amount; updated_records holds at most one record; and every
\* deleted record comes before the updated record, if there is one, in the
\* storage-time order of the records of the name.
C32_DeductionAccounting ==
    [][(DeductStep /\ ret'.result.success) =>
          LET res == ret'.result
              records == query_food_records_by_name(foods, ret'.username,
                                                    ret'.food_name, ret'.tb, TRUE)
          IN  /\ ret'.amount
                    = SumSeq([i \in DOMAIN res.deleted_records |->
                                  res.deleted_records[i].quantity])
                      + SumSeq([i \in DOMAIN res.updated_records |->
                                  res.updated_records[i].deducted])
                      + res.remaining_amount
              /\ Len(res.updated_records) <= 1
              /\ \A i \in DOMAIN res.deleted_records :
                    \A j \in DOMAIN res.updated_records :
                        /\ PlaceOf(records, res.deleted_records[i].id)
                              < PlaceOf(records, res.updated_records[j].id)
                        /\ \A d \in ById(foods, res.deleted_records[i].id) :
                              \A u \in ById(foods, res.updated_records[j].id) :
                                  d.storage_time <= u.storage_time]_vars

\* A call that deleted the oldest record of the name and took the rest of
\* the amount from the next one.
C32_Witness ==
    /\ ret.op = "deduct" /\ ret.result.success
    /\ Len(ret.result.deleted_records) = 1
    /\ Len(ret.result.updated_records) = 1
    /\ ret.result.remaining_amount = 0
    /\ ret.amount = ret.result.deleted_records[1].quantity
                      + ret.result.updated_records[1].deducted

\* ------------------------------------------------------------------------
\* Concurrent deductions by name
\* ------------------------------------------------------------------------
\* The table after two calls run one after the other on the table given,
\* the first asking for a and the second for b.
OneAfterTheOther(table, a, b) ==
    LET tb == CHOOSE x \in TieBreaks : TRUE
        first == deduct_food_quantity(table, "U1", "apple", a, tb, "ok")
    IN  deduct_food_quantity(first.table, "U1", "apple", b, tb, "ok").table

\* What a returned call reports as deducted.
ReportedDeducted(t) == handlers[t].amount - handlers[t].result.remaining_amount

\* C33: two concurrent deduct_food_quantity calls for the same (owner,
\* name) are serialisable: once both have returned success the record
\* store is what running them one after the other in some order gives, and
\* the quantity removed from the store is the sum of what the two calls
\* report as deducted.
C33_ConcurrentDeductionsSerialisable ==
    (/\ \A t \in Callers : handlers[t].pc = "returned" /\ handlers[t].result.success
     /\ ret.op = "table") =>
        /\ \/ foods = OneAfterTheOther(ret.table, handlers[1].amount, handlers[2].amount)
           \/ foods = OneAfterTheOther(ret.table, handlers[2].amount, handlers[1].amount)
        /\ SumQuantity(Stock(ret.table, "U1", "apple"))
              - SumQuantity(Stock(foods, "U1", "apple"))
                = ReportedDeducted(1) + ReportedDeducted(2)

\* C34: a success reply implies a real mutation: whenever the reply to a
\* request by ordinal reports a partial deduction as done, the record with
\* the cached id was in the store at that moment and afterwards holds the
\* new quantity the reply reports.
C34_SuccessImpliesMutation ==
    [][(OrdinalStep /\ ret'.reply.kind = "ordinal_updated") =>
          /\ ById(foods, Entry.id) # {}
          /\ ById(foods', Entry.id) # {}
          /\ \A r \in ById(foods', Entry.id) : r.quantity = ret'.reply.new]_vars

\* C35: ordinals are stable within one listing: after a deletion or a
\* partial deduction of ordinal k every other listed ordinal is still
\* listed and resolves to the record id it had before, and until the list
\* is rebuilt no step makes a listed ordinal resolve to another id.
C35_OrdinalsStable ==
    [][/\ (TextStep /\ ret'.reply.kind \in {"ordinal_deleted", "ordinal_updated"}) =>
             LET before == user_delete_records_mapping[ret'.user].entries
                 after == user_delete_records_mapping'[ret'.user].entries
             IN  /\ user_delete_records_mapping'[ret'.user].present
                 /\ \A j \in (DOMAIN before) \ {ret'.reply.k} :
                       j \in DOMAIN after /\ after[j].id = before[j].id
                 /\ ret'.reply.kind = "ordinal_updated" =>
                       /\ ret'.reply.k \in DOMAIN after
                       /\ after[ret'.reply.k].id = before[ret'.reply.k].id
       /\ \A u \in Users :
             (/\ user_delete_records_mapping[u].present
              /\ user_delete_records_mapping'[u].present
              /\ ret'.reply.kind # "delete_list") =>
                \A j \in DOMAIN user_delete_records_mapping'[u].entries :
                    /\ j \in DOMAIN user_delete_records_mapping[u].entries
                    /\ user_delete_records_mapping'[u].entries[j].id
                          = user_delete_records_mapping[u].entries[j].id]_vars

\* Ordinal 1 is gone from the index, and the request for ordinal 2 deleted
\* the record listed second.
C35_Witness ==
    /\ ret.op = "route_message" /\ ret.reply.kind = "ordinal_deleted"
    /\ ret.reply.k = 2
    /\ user_delete_records_mapping[ret.user].present
    /\ DOMAIN user_delete_records_mapping[ret.user].entries = {}
    /\ \A r \in foods : r.id # 2

\* The images of a batch that carry a group hint with the given total.
OfGroup(events, total) == {k \in DOMAIN events : events[k].total = total}

\* C36: the early flush hands the declared group on as one batch: a batch
\* flushed early on an image whose hint says total = N holds N images of
\* that group, also when the buffer held images without a hint before; the
\* early flush does not fire before the N-th image of the group is there.
C36_EarlyFlushWholeGroup ==
    \A i \in DOMAIN flushed :
        flushed[i].by = "early" =>
            LET events == flushed[i].events
                total == events[Len(events)].total
            IN  Cardinality(OfGroup(events, total)) >= total

\* The values user_function_state holds for a user: a mode, or no entry.
StoredModes == {"recipe", "record", "delete", "none"}

\* C38: stored mode domain: in every reachable state the stored mode of a
\* user is recipe, record, delete or absent; view, help and exit are never
\* stored as a mode; and a Help text leaves the stored mode and the ordinal
\* index as they were.
C38_StoredModeDomain ==
    /\ [](\A u \in Users : user_function_state[u] \in StoredModes)
    /\ [][(TextStep /\ Detected = "help") =>
             /\ ret'.reply.kind = "help"
             /\ user_function_state' = user_function_state
             /\ user_delete_records_mapping' = user_delete_records_mapping]_vars

\* Help was asked for in Delete mode with ordinals listed: the mode and the
\* index are still there.
C38_Witness ==
    /\ ret.op = "route_message" /\ ret.reply.kind = "help"
    /\ user_function_state[ret.user] = "delete"
    /\ user_delete_records_mapping[ret.user].present
    /\ DOMAIN user_delete_records_mapping[ret.user].entries # {}

\* C40: every listed keyword selects its own function: for every function
\* and every keyword listed under it in FUNCTION_KEYWORDS, detect_function
\* of the keyword returns that function; no keyword is shadowed by a
\* keyword of a function that comes earlier in the table.
C40_KeywordSelectsItsFunction ==
    ret.op = "detect" =>
        \A f \in DOMAIN FUNCTION_KEYWORD_LISTS :
            ret.text \in Range(FUNCTION_KEYWORD_LISTS[f].keywords)
                => ret.tag = FUNCTION_KEYWORD_LISTS[f].func

\* ------------------------------------------------------------------------
\* Deliveries: routing of images and isolation of users
\* ------------------------------------------------------------------------
\* The events of a sequence of flushed batches, in order.
RECURSIVE EventsIn(_)
EventsIn(batches) ==
    IF batches = <<>> THEN <<>> ELSE Head(batches).events \o EventsIn(Tail(batches))

\* The ids of a sequence of events, in order.
IdsInOrder(events) == [i \in DOMAIN events |-> events[i].id]

\* The batches flushed in the step.
NewBatches == SubSeq(flushed', Len(flushed) + 1, Len(flushed'))

\* The step hands the images of the delivery to aggregator a: every batch
\* of the step is of that user and aggregator, the images the aggregator
\* has flushed in the step or holds for the user are those it held before
\* and the images of the delivery, and the other aggregator is left alone.
HandedTo(a) ==
    LET u == ret'.user
    IN  /\ SubSeq(flushed', 1, Len(flushed)) = flushed
        /\ \A i \in DOMAIN NewBatches : NewBatches[i].user = u /\ NewBatches[i].agg = a
        /\ Ids(EventsIn(NewBatches)) \cup Ids(image_buffer'[u][a])
              = Ids(image_buffer[u][a]) \cup (arrived + 1)..(arrived + ret'.n)
        /\ \A b \in Aggregators \ {a} :
              /\ image_buffer'[u][b] = image_buffer[u][b]
              /\ user_timers'[u][b] = user_timers[u][b]

\* The images of the delivery were ingested into aggregator a one by one
\* in arrival order: what it has flushed in the step followed by what it
\* holds is what it held before followed by the images.
InArrivalOrder(a) ==
    IdsInOrder(EventsIn(NewBatches) \o image_buffer'[ret'.user][a])
        = IdsInOrder(image_buffer[ret'.user][a]) \o [i \in 1..ret'.n |-> arrived + i]

C39_PerUserIsolation ==
    [][\A B \in Users \ {ret'.user} :
          /\ user_function_state'[B] = user_function_state[B]
          /\ user_wait_message_sent'[B] = user_wait_message_sent[B]
          /\ image_buffer'[B] = image_buffer[B]
          /\ user_timers'[B] = user_timers[B]
          /\ user_delete_records_mapping'[B] = user_delete_records_mapping[B]]_vars

\* The timer callback of one user has flushed that user's batch while the
\* other user is in Recipe mode with a wait notice sent, an image pending
\* under a timer, and an ordinal index from an earlier listing.
C39_Witness ==
    /\ ret.op = "timeout"
    /\ \E i \in DOMAIN flushed : flushed[i].user = ret.user /\ flushed[i].by = "timer"
    /\ \E B \in Users \ {ret.user} :
          /\ user_function_state[B] = "recipe"
          /\ user_wait_message_sent[B] # NoNotice
          /\ image_buffer[B]["recipe"] # <<>>
          /\ user_timers[B]["recipe"] # NoTimer
          /\ user_delete_records_mapping[B].present

====
